---- MODULE Spec2Model ----
(***************************************************************************)
(* Lock monitor: violation detection and the per-card strike ledger.       *)
(*                                                                         *)
(* Time is a discrete clock `now`; the three configured windows are        *)
(* expressed in clock ticks.  A Python datetime is a record                *)
(* [t |-> instant, aware |-> has tzinfo]; a DateTime column of the users   *)
(* table holds the bare instant (SQLite keeps no tzinfo) or NULL.          *)
(***************************************************************************)
EXTENDS Integers, Sequences, FiniteSets, TLC

\* ------------------------------------------------------------------ bounds
MaxTime == 4          \* the clock runs from 0 to MaxTime
MaxCounter == 2       \* escalations from the two-strikes state stop at this counter
MaxLocks == 2         \* devices in one poll, over all units
MaxTracked == 4       \* escalations counted per card in `fresh`
MaxTimeDetect == 1    \* the clock's limit under SpecDetect
MaxTimeEndToEnd == 5  \* the clock's limit under SpecEndToEnd
MaxTimeLedger == 4    \* the clock's limit under SpecLedger
MaxTimeConcurrent == 4  \* the clock's limit under SpecConcurrent
MaxBurst == 3         \* devices in one poll under SpecBurst
MaxTimeBurst == 1     \* the clock's limit under SpecBurst
MaxTimeFlags == 1     \* the clock's limit under SpecFlags
MaxTimeEngaged == 4   \* the clock's limit under SpecEngaged

\* ----------------------------------------------------------- configuration
\* The windows timedelta(hours=VIOLATION_HOURS), timedelta(hours=
\* STRIKE_COOLDOWN_HOURS) and timedelta(days=STRIKE_CLEANUP_DAYS), each given
\* as a number of clock ticks.
VIOLATION_HOURS == 2
STRIKE_COOLDOWN_HOURS == 1
STRIKE_CLEANUP_DAYS == 3

MONITORED_UNITS == <<"U1", "U2">>

Identities == {"A", "B"}

\* ------------------------------------------------------------------- state
VARIABLES
    now,                    \* the wall clock (UTC instant)
    users,                  \* the users table: rows in insertion order
    directory,              \* card UIDs present in the Excel user database
    enable_emails,          \* LockMonitorApp.enable_emails
    enable_cloud_deletion,  \* LockMonitorApp.enable_cloud_deletion
    pc,                     \* position of check_locks_and_process
    lock_data,              \* the poll's result, until the first violation is handled
    violations,             \* violations detected and not yet processed
    fresh,                  \* per card: escalations applied since the card had no
                            \* row, nothing else having changed the row; -1 otherwise
    lastOp,                 \* the last operation and what it returned
    weekly,                 \* the session of a weekly job running beside a cycle
    twin                    \* a second installation fed the same inputs

vars == <<now, users, directory, enable_emails, enable_cloud_deletion,
          pc, lock_data, violations, fresh, lastOp, weekly, twin>>

\* --------------------------------------------------------------- datetimes
\* A NULL DateTime column.
NULL == -1

\* datetime.now(timezone.utc)
UtcNow == [t |-> now, aware |-> TRUE]

\* dt - timedelta(d)
Minus(dt, d) == [t |-> dt.t - d, aware |-> dt.aware]

\* dt.replace(tzinfo=timezone.utc)
ReplaceTzUtc(dt) == [t |-> dt.t, aware |-> TRUE]

\* Binding a datetime to a DateTime column: SQLite keeps the clock reading
\* and drops the tzinfo.
DbStore(dt) == dt.t

\* Reading a non-NULL DateTime column back: a naive datetime.
DbLoad(v) == [t |-> v, aware |-> FALSE]

\* Ordering two datetimes raises TypeError when exactly one is naive.
Comparable(a, b) == a.aware = b.aware

\* max(a, b) of two comparable datetimes
MaxDt(a, b) == IF a.t >= b.t THEN a ELSE b

\* ------------------------------------------------------------ users table
\* session.query(User).filter(User.card_uid == card_uid).first(): the index
\* of the row, 0 when there is none.
FindUser(tbl, card_uid) ==
    IF \E i \in 1..Len(tbl) : tbl[i].card_uid = card_uid
    THEN CHOOSE i \in 1..Len(tbl) :
            /\ tbl[i].card_uid = card_uid
            /\ \A j \in 1..(i - 1) : tbl[j].card_uid # card_uid
    ELSE 0

\* Rows of `card_uid` in the table.
RowsOf(tbl, card_uid) == {i \in 1..Len(tbl) : tbl[i].card_uid = card_uid}

\* _get_or_create_user adding a row without looking for one.
get_or_create_user_always_new(tbl, card_uid) ==
    [tbl |-> Append(tbl, [card_uid |-> card_uid,
                          strike_1_date |-> NULL,
                          strike_2_date |-> NULL,
                          counter |-> 0,
                          last_violation_date |-> NULL,
                          created_at |-> DbStore(UtcNow),
                          updated_at |-> DbStore(UtcNow)]),
     idx |-> Len(tbl) + 1]

\* StrikeService._get_or_create_user: the table (with the new row added to the
\* session when there was none) and the row's index.
get_or_create_user(tbl, card_uid) ==
    IF FindUser(tbl, card_uid) # 0
    THEN [tbl |-> tbl, idx |-> FindUser(tbl, card_uid)]
    ELSE [tbl |-> Append(tbl, [card_uid |-> card_uid,
                               strike_1_date |-> NULL,
                               strike_2_date |-> NULL,
                               counter |-> 0,
                               last_violation_date |-> NULL,
                               created_at |-> DbStore(UtcNow),
                               updated_at |-> DbStore(UtcNow)]),
          idx |-> Len(tbl) + 1]

\* _determine_and_apply_strike with the third branch leaving strike_1_date set.
determine_keeps_strike_1(user, violation) ==
    LET base == [location |-> violation.location, lock_id |-> violation.lock_id,
                 counter |-> user.counter, strike_type |-> ""]
    IN  IF user.strike_1_date = NULL
        THEN [user |-> [user EXCEPT !.strike_1_date = DbStore(UtcNow)],
              info |-> [base EXCEPT !.strike_type = "strike_1"]]
        ELSE IF user.strike_2_date = NULL
        THEN [user |-> [user EXCEPT !.strike_2_date = DbStore(UtcNow)],
              info |-> [base EXCEPT !.strike_type = "strike_2"]]
        ELSE [user |-> [user EXCEPT !.strike_2_date = NULL,
                                    !.counter = user.counter + 1],
              info |-> [base EXCEPT
                          !.strike_type = IF user.counter = 0
                                          THEN "strike_3" ELSE "counter",
                          !.counter = user.counter + 1]]

\* _determine_and_apply_strike choosing the first two branches only while the
\* counter is 0: a card with counter > 0 is escalated as a repeat offender
\* whatever its strike dates.
determine_by_counter(user, violation) ==
    LET base == [location |-> violation.location, lock_id |-> violation.lock_id,
                 counter |-> user.counter, strike_type |-> ""]
    IN  IF user.strike_1_date = NULL /\ user.counter = 0
        THEN [user |-> [user EXCEPT !.strike_1_date = DbStore(UtcNow)],
              info |-> [base EXCEPT !.strike_type = "strike_1"]]
        ELSE IF user.strike_2_date = NULL /\ user.counter = 0
        THEN [user |-> [user EXCEPT !.strike_2_date = DbStore(UtcNow)],
              info |-> [base EXCEPT !.strike_type = "strike_2"]]
        ELSE [user |-> [user EXCEPT !.strike_1_date = NULL,
                                    !.strike_2_date = NULL,
                                    !.counter = user.counter + 1],
              info |-> [base EXCEPT
                          !.strike_type = IF user.counter = 0
                                          THEN "strike_3" ELSE "counter",
                          !.counter = user.counter + 1]]

\* _determine_and_apply_strike classifying the third branch by the counter
\* after the increment.
determine_classifies_late(user, violation) ==
    LET base == [location |-> violation.location, lock_id |-> violation.lock_id,
                 counter |-> user.counter, strike_type |-> ""]
    IN  IF user.strike_1_date = NULL
        THEN [user |-> [user EXCEPT !.strike_1_date = DbStore(UtcNow)],
              info |-> [base EXCEPT !.strike_type = "strike_1"]]
        ELSE IF user.strike_2_date = NULL
        THEN [user |-> [user EXCEPT !.strike_2_date = DbStore(UtcNow)],
              info |-> [base EXCEPT !.strike_type = "strike_2"]]
        ELSE [user |-> [user EXCEPT !.strike_1_date = NULL,
                                    !.strike_2_date = NULL,
                                    !.counter = user.counter + 1],
              info |-> [base EXCEPT
                          !.strike_type = IF user.counter + 1 = 0
                                          THEN "strike_3" ELSE "counter",
                          !.counter = user.counter + 1]]

\* _determine_and_apply_strike with the second branch stamping strike_1_date
\* again.
determine_restamps_strike_1(user, violation) ==
    LET base == [location |-> violation.location, lock_id |-> violation.lock_id,
                 counter |-> user.counter, strike_type |-> ""]
    IN  IF user.strike_1_date = NULL
        THEN [user |-> [user EXCEPT !.strike_1_date = DbStore(UtcNow)],
              info |-> [base EXCEPT !.strike_type = "strike_1"]]
        ELSE IF user.strike_2_date = NULL
        THEN [user |-> [user EXCEPT !.strike_1_date = DbStore(UtcNow),
                                    !.strike_2_date = DbStore(UtcNow)],
              info |-> [base EXCEPT !.strike_type = "strike_2"]]
        ELSE [user |-> [user EXCEPT !.strike_1_date = NULL,
                                    !.strike_2_date = NULL,
                                    !.counter = user.counter + 1],
              info |-> [base EXCEPT
                          !.strike_type = IF user.counter = 0
                                          THEN "strike_3" ELSE "counter",
                          !.counter = user.counter + 1]]

\* _determine_and_apply_strike returning in its third branch the counter it
\* found.
determine_reports_old_counter(user, violation) ==
    LET base == [location |-> violation.location, lock_id |-> violation.lock_id,
                 counter |-> user.counter, strike_type |-> ""]
    IN  IF user.strike_1_date = NULL
        THEN [user |-> [user EXCEPT !.strike_1_date = DbStore(UtcNow)],
              info |-> [base EXCEPT !.strike_type = "strike_1"]]
        ELSE IF user.strike_2_date = NULL
        THEN [user |-> [user EXCEPT !.strike_2_date = DbStore(UtcNow)],
              info |-> [base EXCEPT !.strike_type = "strike_2"]]
        ELSE [user |-> [user EXCEPT !.strike_1_date = NULL,
                                    !.strike_2_date = NULL,
                                    !.counter = user.counter + 1],
              info |-> [base EXCEPT
                          !.strike_type = IF user.counter = 0
                                          THEN "strike_3" ELSE "counter"]]

\* _determine_and_apply_strike calling every escalation from the two-strikes
\* state strike_3.
determine_always_strike_3(user, violation) ==
    LET base == [location |-> violation.location, lock_id |-> violation.lock_id,
                 counter |-> user.counter, strike_type |-> ""]
    IN  IF user.strike_1_date = NULL
        THEN [user |-> [user EXCEPT !.strike_1_date = DbStore(UtcNow)],
              info |-> [base EXCEPT !.strike_type = "strike_1"]]
        ELSE IF user.strike_2_date = NULL
        THEN [user |-> [user EXCEPT !.strike_2_date = DbStore(UtcNow)],
              info |-> [base EXCEPT !.strike_type = "strike_2"]]
        ELSE [user |-> [user EXCEPT !.strike_1_date = NULL,
                                    !.strike_2_date = NULL,
                                    !.counter = user.counter + 1],
              info |-> [base EXCEPT !.strike_type = "strike_3",
                                    !.counter = user.counter + 1]]

\* _determine_and_apply_strike looking at the age of the strikes: a row whose
\* strike dates are all older than the decay window starts again at strike_1.
determine_restarts_when_stale(user, violation) ==
    LET base == [location |-> violation.location, lock_id |-> violation.lock_id,
                 counter |-> user.counter, strike_type |-> ""]
        cutoff == now - STRIKE_CLEANUP_DAYS
        stale == /\ user.strike_1_date # NULL
                 /\ user.strike_1_date < cutoff
                 /\ user.strike_2_date = NULL \/ user.strike_2_date < cutoff
    IN  IF user.strike_1_date = NULL \/ stale
        THEN [user |-> [user EXCEPT !.strike_1_date = DbStore(UtcNow),
                                    !.strike_2_date = NULL],
              info |-> [base EXCEPT !.strike_type = "strike_1"]]
        ELSE IF user.strike_2_date = NULL
        THEN [user |-> [user EXCEPT !.strike_2_date = DbStore(UtcNow)],
              info |-> [base EXCEPT !.strike_type = "strike_2"]]
        ELSE [user |-> [user EXCEPT !.strike_1_date = NULL,
                                    !.strike_2_date = NULL,
                                    !.counter = user.counter + 1],
              info |-> [base EXCEPT
                          !.strike_type = IF user.counter = 0
                                          THEN "strike_3" ELSE "counter",
                          !.counter = user.counter + 1]]

\* _determine_and_apply_strike writing the second strike into the wrong
\* column: the old strike_1_date moves to strike_2_date and strike_1_date is
\* set to the current time.
determine_swaps_strike_dates(user, violation) ==
    LET base == [location |-> violation.location, lock_id |-> violation.lock_id,
                 counter |-> user.counter, strike_type |-> ""]
    IN  IF user.strike_1_date = NULL
        THEN [user |-> [user EXCEPT !.strike_1_date = DbStore(UtcNow)],
              info |-> [base EXCEPT !.strike_type = "strike_1"]]
        ELSE IF user.strike_2_date = NULL
        THEN [user |-> [user EXCEPT !.strike_2_date = user.strike_1_date,
                                    !.strike_1_date = DbStore(UtcNow)],
              info |-> [base EXCEPT !.strike_type = "strike_2"]]
        ELSE [user |-> [user EXCEPT !.strike_1_date = NULL,
                                    !.strike_2_date = NULL,
                                    !.counter = user.counter + 1],
              info |-> [base EXCEPT
                          !.strike_type = IF user.counter = 0
                                          THEN "strike_3" ELSE "counter",
                          !.counter = user.counter + 1]]

\* StrikeService._determine_and_apply_strike on one row: the row as changed
\* and the strike_info returned.
determine_and_apply_strike(user, violation) ==
    LET current_time == UtcNow
        has_strike_1 == user.strike_1_date # NULL
        has_strike_2 == user.strike_2_date # NULL
        current_counter == user.counter
        base == [location |-> violation.location,
                 lock_id |-> violation.lock_id,
                 counter |-> current_counter,
                 strike_type |-> ""]
    IN  IF ~has_strike_1
        THEN [user |-> [user EXCEPT !.strike_1_date = DbStore(current_time)],
              info |-> [base EXCEPT !.strike_type = "strike_1"]]
        ELSE IF ~has_strike_2
        THEN [user |-> [user EXCEPT !.strike_2_date = DbStore(current_time)],
              info |-> [base EXCEPT !.strike_type = "strike_2"]]
        ELSE [user |-> [user EXCEPT !.strike_1_date = NULL,
                                    !.strike_2_date = NULL,
                                    !.counter = current_counter + 1],
              info |-> [base EXCEPT
                          !.strike_type = IF current_counter = 0
                                          THEN "strike_3" ELSE "counter",
                          !.counter = current_counter + 1]]

\* process_strike refreshing last_violation_date only when a strike date was
\* set, not when the strikes were cleared.
process_strike_stale_touch(tbl, card_uid, violation, commitOk) ==
    LET got == get_or_create_user(tbl, card_uid)
        res == determine_and_apply_strike(got.tbl[got.idx], violation)
        touched == IF res.info.strike_type \in {"strike_1", "strike_2"}
                   THEN [res.user EXCEPT !.last_violation_date = DbStore(UtcNow),
                                         !.updated_at = DbStore(UtcNow)]
                   ELSE [res.user EXCEPT !.updated_at = DbStore(UtcNow)]
    IN  IF commitOk
        THEN [ok |-> TRUE,
              tbl |-> [got.tbl EXCEPT ![got.idx] = touched],
              info |-> res.info]
        ELSE [ok |-> FALSE, tbl |-> tbl, info |-> res.info]

\* process_strike whose failed transaction leaves behind the row it added
\* for an unknown card.
process_strike_keeps_new_row(tbl, card_uid, violation, commitOk) ==
    LET got == get_or_create_user(tbl, card_uid)
        res == determine_and_apply_strike(got.tbl[got.idx], violation)
        touched == [res.user EXCEPT !.last_violation_date = DbStore(UtcNow),
                                    !.updated_at = DbStore(UtcNow)]
    IN  IF commitOk
        THEN [ok |-> TRUE,
              tbl |-> [got.tbl EXCEPT ![got.idx] = touched],
              info |-> res.info]
        ELSE [ok |-> FALSE, tbl |-> got.tbl, info |-> res.info]

\* process_strike holding back a card whose last violation is less than the
\* cooldown window ago.
process_strike_with_cooldown(tbl, card_uid, violation, commitOk) ==
    LET i == FindUser(tbl, card_uid)
        got == get_or_create_user(tbl, card_uid)
        res == determine_and_apply_strike(got.tbl[got.idx], violation)
        touched == [res.user EXCEPT !.last_violation_date = DbStore(UtcNow),
                                    !.updated_at = DbStore(UtcNow)]
    IN  IF /\ i # 0
           /\ tbl[i].last_violation_date # NULL
           /\ tbl[i].last_violation_date > Minus(UtcNow, STRIKE_COOLDOWN_HOURS).t
        THEN [ok |-> TRUE, tbl |-> tbl,
              info |-> [res.info EXCEPT !.strike_type = "no_action",
                                        !.counter = tbl[i].counter]]
        ELSE IF commitOk
        THEN [ok |-> TRUE,
              tbl |-> [got.tbl EXCEPT ![got.idx] = touched],
              info |-> res.info]
        ELSE [ok |-> FALSE, tbl |-> tbl, info |-> res.info]

\* process_strike returning its strike_info although the commit failed.
process_strike_swallows_error(tbl, card_uid, violation, commitOk) ==
    LET got == get_or_create_user(tbl, card_uid)
        res == determine_and_apply_strike(got.tbl[got.idx], violation)
        touched == [res.user EXCEPT !.last_violation_date = DbStore(UtcNow),
                                    !.updated_at = DbStore(UtcNow)]
    IN  IF commitOk
        THEN [ok |-> TRUE,
              tbl |-> [got.tbl EXCEPT ![got.idx] = touched],
              info |-> res.info]
        ELSE [ok |-> TRUE, tbl |-> tbl, info |-> res.info]

\* StrikeService.process_strike: one transaction.  A failing commit is rolled
\* back and the exception raised again (ok = FALSE, the table as before).
process_strike(tbl, card_uid, violation, commitOk) ==
    LET got == get_or_create_user(tbl, card_uid)
        res == determine_and_apply_strike(got.tbl[got.idx], violation)
        touched == [res.user EXCEPT !.last_violation_date = DbStore(UtcNow),
                                    !.updated_at = DbStore(UtcNow)]
    IN  IF commitOk
        THEN [ok |-> TRUE,
              tbl |-> [got.tbl EXCEPT ![got.idx] = touched],
              info |-> res.info]
        ELSE [ok |-> FALSE, tbl |-> tbl, info |-> res.info]

\* A cooldown check that compares the instants and uses the decay window.
is_user_in_cooldown_decay_window(tbl, card_uid) ==
    LET i == FindUser(tbl, card_uid)
    IN  /\ i # 0
        /\ tbl[i].last_violation_date # NULL
        /\ tbl[i].last_violation_date >= Minus(UtcNow, STRIKE_CLEANUP_DAYS).t

\* A cooldown check that fails closed: a comparison that raises counts as
\* "in cooldown".
is_user_in_cooldown_fails_closed(tbl, card_uid) ==
    LET i == FindUser(tbl, card_uid)
    IN  IF i = 0 THEN FALSE
        ELSE IF tbl[i].last_violation_date = NULL THEN FALSE
        ELSE LET last_violation_date == DbLoad(tbl[i].last_violation_date)
                 cooldown_cutoff == Minus(UtcNow, STRIKE_COOLDOWN_HOURS)
             IN  IF ~Comparable(last_violation_date, cooldown_cutoff)
                 THEN TRUE
                 ELSE last_violation_date.t >= cooldown_cutoff.t

\* StrikeService.is_user_in_cooldown against the committed table.
is_user_in_cooldown(tbl, card_uid) ==
    LET i == FindUser(tbl, card_uid)
    IN  IF i = 0 THEN FALSE
        ELSE IF tbl[i].last_violation_date = NULL THEN FALSE
        ELSE LET last_violation_date == DbLoad(tbl[i].last_violation_date)
                 cooldown_cutoff == Minus(UtcNow, STRIKE_COOLDOWN_HOURS)
             IN  IF ~Comparable(last_violation_date, cooldown_cutoff)
                 THEN FALSE    \* TypeError, caught: "Error checking cooldown"
                 ELSE last_violation_date.t >= cooldown_cutoff.t

\* A reset that puts the counter back to 0 as well.
reset_user_strikes_and_counter(tbl, card_uid, commitOk) ==
    LET i == FindUser(tbl, card_uid)
    IN  IF i = 0 \/ ~commitOk
        THEN [ok |-> FALSE, tbl |-> tbl]
        ELSE [ok |-> TRUE,
              tbl |-> [tbl EXCEPT ![i].strike_1_date = NULL,
                                  ![i].strike_2_date = NULL,
                                  ![i].counter = 0,
                                  ![i].updated_at = DbStore(UtcNow)]]

\* A reset that clears strike_1_date and leaves strike_2_date.
reset_user_strikes_first_only(tbl, card_uid, commitOk) ==
    LET i == FindUser(tbl, card_uid)
    IN  IF i = 0 \/ ~commitOk
        THEN [ok |-> FALSE, tbl |-> tbl]
        ELSE [ok |-> TRUE,
              tbl |-> [tbl EXCEPT ![i].strike_1_date = NULL,
                                  ![i].updated_at = DbStore(UtcNow)]]

\* A reset that adds a clean row for a card without one.
reset_user_strikes_upsert(tbl, card_uid, commitOk) ==
    LET got == get_or_create_user(tbl, card_uid)
    IN  IF ~commitOk
        THEN [ok |-> FALSE, tbl |-> tbl]
        ELSE [ok |-> TRUE,
              tbl |-> [got.tbl EXCEPT ![got.idx].strike_1_date = NULL,
                                      ![got.idx].strike_2_date = NULL,
                                      ![got.idx].updated_at = DbStore(UtcNow)]]

\* StrikeService.reset_user_strikes: FALSE when there is no row or the commit
\* fails (rolled back).
reset_user_strikes(tbl, card_uid, commitOk) ==
    LET i == FindUser(tbl, card_uid)
    IN  IF i = 0 \/ ~commitOk
        THEN [ok |-> FALSE, tbl |-> tbl]
        ELSE [ok |-> TRUE,
              tbl |-> [tbl EXCEPT ![i].strike_1_date = NULL,
                                  ![i].strike_2_date = NULL,
                                  ![i].updated_at = DbStore(UtcNow)]]

\* StrikeService.validate_strike_data: TRUE when the card has no row.
validate_strike_data(tbl, card_uid) ==
    LET i == FindUser(tbl, card_uid)
    IN  IF i = 0 THEN TRUE
        ELSE LET has_strike_1 == tbl[i].strike_1_date # NULL
                 has_strike_2 == tbl[i].strike_2_date # NULL
                 counter == tbl[i].counter
             IN  IF has_strike_2 /\ ~has_strike_1 /\ counter = 0 THEN FALSE
                 ELSE IF /\ has_strike_1 /\ has_strike_2
                         /\ DbLoad(tbl[i].strike_1_date).t > DbLoad(tbl[i].strike_2_date).t
                 THEN FALSE
                 ELSE IF counter < 0 THEN FALSE
                 ELSE TRUE

\* ------------------------------------------------------------ decay sweeps
\* A column read back in LockMonitorApp._cleanup_old_strikes: a naive value
\* is given tzinfo UTC.
LoadAsUtc(v) ==
    LET dt == DbLoad(v)
    IN  IF ~dt.aware THEN ReplaceTzUtc(dt) ELSE dt

\* The SQL filter of LockMonitorApp._cleanup_old_strikes:
\* (strike_1_date < cutoff) OR (strike_2_date < cutoff), NULL comparing unknown.
AppSweepSelects(user, cutoff_date) ==
    \/ user.strike_1_date # NULL /\ user.strike_1_date < DbStore(cutoff_date)
    \/ user.strike_2_date # NULL /\ user.strike_2_date < DbStore(cutoff_date)

\* The loop body deciding by the oldest strike of the row instead of the
\* newest.
AppSweepClearsOldest(user, cutoff_date) ==
    LET has1 == user.strike_1_date # NULL
        has2 == user.strike_2_date # NULL
    IN  \/ has1 /\ LoadAsUtc(user.strike_1_date).t < cutoff_date.t
        \/ has2 /\ LoadAsUtc(user.strike_2_date).t < cutoff_date.t

\* The loop body of LockMonitorApp._cleanup_old_strikes: whether the row's
\* newest strike is older than the cutoff.
AppSweepClears(user, cutoff_date) ==
    LET has1 == user.strike_1_date # NULL
        has2 == user.strike_2_date # NULL
        newest_strike_date ==
            IF has1 /\ has2
            THEN MaxDt(LoadAsUtc(user.strike_1_date), LoadAsUtc(user.strike_2_date))
            ELSE IF has1 THEN LoadAsUtc(user.strike_1_date)
            ELSE LoadAsUtc(user.strike_2_date)
    IN  /\ has1 \/ has2
        /\ newest_strike_date.t < cutoff_date.t

\* A sweep clearing strike_1_date and leaving strike_2_date.
ClearedFirstOnly(user) ==
    [user EXCEPT !.strike_1_date = NULL,
                 !.updated_at = DbStore(UtcNow)]

\* A sweep that clears the strike dates and the counter with them.
ClearedWithCounter(user) ==
    [user EXCEPT !.strike_1_date = NULL,
                 !.strike_2_date = NULL,
                 !.counter = 0,
                 !.updated_at = DbStore(UtcNow)]

\* A sweep that clears last_violation_date with the strike dates.
ClearedWithLastViolation(user) ==
    [user EXCEPT !.strike_1_date = NULL,
                 !.strike_2_date = NULL,
                 !.last_violation_date = NULL,
                 !.updated_at = DbStore(UtcNow)]

\* A row with both strike dates cleared by a sweep.
Cleared(user) ==
    [user EXCEPT !.strike_1_date = NULL,
                 !.strike_2_date = NULL,
                 !.updated_at = DbStore(UtcNow)]

\* LockMonitorApp._cleanup_old_strikes: one transaction over the table; a
\* failing commit is rolled back and logged.
app_cleanup_old_strikes(tbl, commitOk) ==
    LET cutoff_date == Minus(UtcNow, STRIKE_CLEANUP_DAYS)
        hit == {i \in 1..Len(tbl) : /\ AppSweepSelects(tbl[i], cutoff_date)
                                    /\ AppSweepClears(tbl[i], cutoff_date)}
    IN  IF commitOk
        THEN [status |-> "done",
              tbl |-> [i \in 1..Len(tbl) |->
                          IF i \in hit THEN Cleared(tbl[i]) ELSE tbl[i]],
              cleaned |-> Cardinality(hit)]
        ELSE [status |-> "error", tbl |-> tbl, cleaned |-> 0]

\* The newest strike of a row in StrikeService.cleanup_old_strikes, there is
\* none (Python None) when strike_1_date is NULL.
SvcHasNewest(user) == user.strike_1_date # NULL

SvcNewest(user) ==
    IF user.strike_1_date # NULL /\ user.strike_2_date # NULL
    THEN MaxDt(DbLoad(user.strike_1_date), DbLoad(user.strike_2_date))
    ELSE DbLoad(user.strike_1_date)

\* StrikeService.cleanup_old_strikes: the rows with a strike date are visited
\* in order; comparing a row's newest strike with the cutoff raises TypeError
\* when one of the two is naive, which rolls the transaction back and
\* returns 0.
svc_cleanup_old_strikes(tbl, commitOk) ==
    LET cutoff_date == Minus(UtcNow, STRIKE_CLEANUP_DAYS)
        users_with_strikes ==
            {i \in 1..Len(tbl) : tbl[i].strike_1_date # NULL
                                 \/ tbl[i].strike_2_date # NULL}
        raises == \E i \in users_with_strikes :
                      /\ SvcHasNewest(tbl[i])
                      /\ ~Comparable(SvcNewest(tbl[i]), cutoff_date)
        hit == {i \in users_with_strikes :
                      /\ SvcHasNewest(tbl[i])
                      /\ SvcNewest(tbl[i]).t < cutoff_date.t}
    IN  IF raises
        THEN [status |-> "type_error", tbl |-> tbl, cleaned |-> 0]
        ELSE IF ~commitOk
        THEN [status |-> "error", tbl |-> tbl, cleaned |-> 0]
        ELSE [status |-> "done",
              tbl |-> [i \in 1..Len(tbl) |->
                          IF i \in hit THEN Cleared(tbl[i]) ELSE tbl[i]],
              cleaned |-> Cardinality(hit)]

\* -------------------------------------------------------------- detection
\* A timestamp string of the lock service is [form, wall, off]: its shape,
\* the clock reading written in it and its UTC offset.
\*   "Z"        ...T10:00:00Z          "offset"   ...T11:00:00+01:00
\*   "naive"    ...T10:00:00           "dateonly" 2024-01-15
\*   "garbage"  not ISO 8601           "none"     the field is absent
NoTimestamp == [form |-> "none", wall |-> 0, off |-> 0]

\* s.replace('Z', '+00:00')
ReplaceZ(s) == IF s.form = "Z" THEN [s EXCEPT !.form = "offset", !.off = 0] ELSE s

\* datetime.fromisoformat(s) raises ValueError
IsoValueError(s) == s.form \notin {"offset", "naive", "dateonly"}

\* datetime.fromisoformat(s): aware with the instant wall - off when the
\* string carries an offset, naive otherwise.
FromIsoFormat(s) ==
    IF s.form = "offset"
    THEN [t |-> s.wall - s.off, aware |-> TRUE]
    ELSE [t |-> s.wall, aware |-> FALSE]

\* The card UID of a device nobody used (Python None).
NoUid == "<none>"

\* `uid is not None` in place of bool(uid)
NotNone(uid) == uid # NoUid

\* bool(uid)
Truthy(uid) == uid \notin {NoUid, ""}

\* LockAPIService._parse_lock_data on the devices of one unit: a timestamp
\* that is not ISO 8601 becomes None.
parse_lock_data(devices) ==
    [i \in 1..Len(devices) |->
        [lock_id |-> devices[i].id,
         is_locked |-> devices[i].locked,
         locked_by_uid |-> devices[i].lastUsedRfid,
         locked_at |->
            IF devices[i].lastOpenCloseDate.form # "none"
               /\ IsoValueError(ReplaceZ(devices[i].lastOpenCloseDate))
            THEN NoTimestamp
            ELSE devices[i].lastOpenCloseDate]]

\* LockAPIService.get_lock_status: the units that answered, in the order of
\* MONITORED_UNITS, each with its parsed locks; <<>> stands for None (no
\* unit answered, or the login failed).
RECURSIVE LockStatusFrom(_, _)
LockStatusFrom(k, responses) ==
    IF k > Len(MONITORED_UNITS) THEN <<>>
    ELSE (IF responses[k].ok
          THEN <<[unit |-> MONITORED_UNITS[k],
                  locks |-> parse_lock_data(responses[k].devices)]>>
          ELSE <<>>) \o LockStatusFrom(k + 1, responses)

get_lock_status(authenticated, responses) ==
    IF ~authenticated THEN <<>> ELSE LockStatusFrom(1, responses)

\* The parsing branches of LockMonitorApp._check_for_violations:
\* [ok |-> no ValueError, dt |-> locked_at].
ParseLockedAt(s) ==
    IF s.form = "Z"
    THEN [ok |-> TRUE, dt |-> FromIsoFormat(ReplaceZ(s))]
    ELSE IF s.form \in {"offset", "dateonly"}     \* '+' in s or '-' in s[-6:]
    THEN [ok |-> TRUE, dt |-> FromIsoFormat(s)]
    ELSE IF IsoValueError(s)
    THEN [ok |-> FALSE, dt |-> [t |-> 0, aware |-> FALSE]]
    ELSE [ok |-> TRUE, dt |-> ReplaceTzUtc(FromIsoFormat(s))]

\* locked_at <= cutoff_time
IsStaleOrEqual(locked_at, cutoff_time) == locked_at.t <= cutoff_time.t

\* locked_at < cutoff_time
IsStale(locked_at, cutoff_time) == locked_at.t < cutoff_time.t

\* A detector that reports an engagement once: a lock whose timestamp is not
\* later than the holder's last escalation is passed over.
IsViolationNewEngagement(tbl, lock) ==
    LET cutoff_time == Minus(UtcNow, VIOLATION_HOURS)
        parsed == ParseLockedAt(lock.locked_at)
        i == FindUser(tbl, lock.locked_by_uid)
    IN  /\ lock.is_locked
        /\ Truthy(lock.locked_by_uid)
        /\ lock.locked_at.form # "none"
        /\ parsed.ok
        /\ Comparable(parsed.dt, cutoff_time)
        /\ IsStale(parsed.dt, cutoff_time)
        /\ ~is_user_in_cooldown(tbl, lock.locked_by_uid)
        /\ \/ i = 0
           \/ tbl[i].last_violation_date = NULL
           \/ parsed.dt.t > tbl[i].last_violation_date

\* Whether the loop body of _check_for_violations appends a violation for
\* this lock: the two `continue`s, the parse, the comparison (a TypeError
\* or ValueError skips the lock) and the cooldown check.
IsViolation(tbl, lock) ==
    LET cutoff_time == Minus(UtcNow, VIOLATION_HOURS)
        parsed == ParseLockedAt(lock.locked_at)
    IN  /\ lock.is_locked
        /\ Truthy(lock.locked_by_uid)
        /\ lock.locked_at.form # "none"
        /\ parsed.ok
        /\ Comparable(parsed.dt, cutoff_time)
        /\ IsStale(parsed.dt, cutoff_time)
        /\ ~is_user_in_cooldown(tbl, lock.locked_by_uid)

\* A loop over a unit's locks that ends at the first engaged lock of a holder
\* whose timestamp is missing or cannot be compared.
RECURSIVE UnitViolationsUntilBadTimestamp(_, _, _, _)
UnitViolationsUntilBadTimestamp(tbl, unit_id, locks, k) ==
    IF k > Len(locks) THEN <<>>
    ELSE IF /\ locks[k].is_locked
            /\ Truthy(locks[k].locked_by_uid)
            /\ \/ locks[k].locked_at.form = "none"
               \/ ~ParseLockedAt(locks[k].locked_at).ok
               \/ ~Comparable(ParseLockedAt(locks[k].locked_at).dt, UtcNow)
    THEN <<>>
    ELSE (IF IsViolation(tbl, locks[k])
          THEN <<[location |-> unit_id,
                  lock_id |-> locks[k].lock_id,
                  card_uid |-> locks[k].locked_by_uid,
                  locked_at |-> ParseLockedAt(locks[k].locked_at).dt]>>
          ELSE <<>>) \o UnitViolationsUntilBadTimestamp(tbl, unit_id, locks, k + 1)

\* The violations of one unit's locks, in list order.
RECURSIVE UnitViolations(_, _, _, _)
UnitViolations(tbl, unit_id, locks, k) ==
    IF k > Len(locks) THEN <<>>
    ELSE (IF IsViolation(tbl, locks[k])
          THEN <<[location |-> unit_id,
                  lock_id |-> locks[k].lock_id,
                  card_uid |-> locks[k].locked_by_uid,
                  locked_at |-> ParseLockedAt(locks[k].locked_at).dt]>>
          ELSE <<>>) \o UnitViolations(tbl, unit_id, locks, k + 1)

\* A detector that returns the violations of the later units first.
RECURSIVE check_for_violations_last_first(_, _, _)
check_for_violations_last_first(tbl, data, k) ==
    IF k > Len(data) THEN <<>>
    ELSE check_for_violations_last_first(tbl, data, k + 1)
         \o UnitViolations(tbl, data[k].unit, data[k].locks, 1)

\* LockMonitorApp._check_for_violations
RECURSIVE check_for_violations(_, _, _)
check_for_violations(tbl, data, k) ==
    IF k > Len(data) THEN <<>>
    ELSE UnitViolations(tbl, data[k].unit, data[k].locks, 1)
         \o check_for_violations(tbl, data, k + 1)

\* ------------------------------------------------------------------ inputs
\* Timestamps are drawn relative to the clock.  A timestamp string of the
\* given form for the instant now - age; the offset form is written one tick
\* east of UTC.
Timestamp(form, age) ==
    IF form \in {"none", "garbage"}
    THEN [form |-> form, wall |-> 0, off |-> 0]
    ELSE IF form = "offset"
    THEN [form |-> form, wall |-> now - age + 1, off |-> 1]
    ELSE [form |-> form, wall |-> now - age, off |-> 0]

Device(locked, uid, ts) ==
    [id |-> 0, locked |-> locked, lastUsedRfid |-> uid, lastOpenCloseDate |-> ts]

\* Locks engaged by a known card longer than the violation window, with a
\* well-formed UTC timestamp.
CoreDevices ==
    {Device(TRUE, uid, Timestamp("Z", VIOLATION_HOURS + 1)) : uid \in Identities}

\* One device of every kind the detector distinguishes: the timestamp forms,
\* the edge of the violation window, and the fields that may be missing.
DetectDevices ==
    CoreDevices
    \cup {Device(TRUE, "A", Timestamp("Z", VIOLATION_HOURS))}
    \cup {Device(TRUE, "A", Timestamp(form, VIOLATION_HOURS + 1)) :
            form \in {"offset", "naive", "dateonly"}}
    \cup {Device(TRUE, "A", Timestamp(form, 0)) : form \in {"none", "garbage"}}
    \cup {Device(FALSE, "A", Timestamp("Z", VIOLATION_HOURS + 1))}
    \cup {Device(TRUE, uid, Timestamp("Z", VIOLATION_HOURS + 1)) : uid \in {NoUid, ""}}

\* Sequences of at most n devices of `kinds`, the device at position i
\* having id i.
RECURSIVE DeviceLists(_, _)
DeviceLists(kinds, n) ==
    IF n = 0 THEN {<<>>}
    ELSE LET shorter == DeviceLists(kinds, n - 1)
         IN  shorter \cup
             {Append(l, [d EXCEPT !.id = Len(l) + 1]) :
                 l \in {x \in shorter : Len(x) = n - 1}, d \in kinds}

\* The answers of the units to one poll: the devices `devs` split between
\* the two units after position `cut`; a unit that fails holds no device.
Responses(devs, cut, ok1, ok2) ==
    <<[ok |-> ok1, devices |-> SubSeq(devs, 1, cut)],
      [ok |-> ok2, devices |-> SubSeq(devs, cut + 1, Len(devs))]>>

\* The "Invalid timestamp format" warnings of _parse_lock_data for the
\* devices of a poll.
Rejected(devs) ==
    Cardinality({i \in 1..Len(devs) :
                    /\ devs[i].lastOpenCloseDate.form # "none"
                    /\ IsoValueError(ReplaceZ(devs[i].lastOpenCloseDate))})

\* ----------------------------------------------------------------- actions
\* No weekly job is running beside the cycle.
NoSession == [running |-> FALSE, loaded |-> <<>>, dirty |-> <<>>]

\* The record of an operation.  `units` is the number of units that answered
\* a poll and `rejected` the number of "Invalid timestamp format" warnings of
\* the poll; `found`, `processed` and `failed` follow a cycle: the violations
\* its detection returned, those handed to _process_violation so far, and
\* those of them that did not end in a committed strike.  `location` and
\* `lock_id` are those of the strike_info of a committed strike.  For a reset
\* `cleaned` is the number of strike dates the row held.
Op(name) ==
    [op |-> name, card_uid |-> "", status |-> "", strike_type |-> "",
     counter |-> 0, cleaned |-> 0, repeat |-> -1,
     email |-> "", cloud |-> "", excel |-> "",
     units |-> 0, found |-> 0, processed |-> 0, failed |-> 0,
     location |-> "", lock_id |-> 0, rejected |-> 0]

\* An operation of the running cycle, carrying the cycle's counts on.
CycleOp(name) ==
    [Op(name) EXCEPT !.found = lastOp.found,
                     !.processed = lastOp.processed,
                     !.failed = lastOp.failed]

\* A cycle that goes on whatever the poll returned.
AlwaysData(data) == FALSE

\* `not lock_data` in check_locks_and_process
NoLockData(data) == data = <<>>

\* A lookup that answers for every card it could read the workbook for.
get_user_info_any(dir, card_uid, readOk) == readOk

\* ExcelService.get_user_info: whether a row was found for the card; a
\* workbook that cannot be read gives None as well.
get_user_info(dir, card_uid, readOk) == readOk /\ card_uid \in dir

\* A loop over the violations that stops at the first one whose handling
\* did not commit a strike.
RemainingUntilFailure(vs, op) ==
    IF op.status = "done" THEN Tail(vs) ELSE <<>>

\* A loop over the violations that stops when a revocation failed.
RemainingUntilRevocationFailed(vs, op) ==
    IF op.cloud = "failed" \/ op.excel = "failed" THEN <<>> ELSE Tail(vs)

\* The `for violation in violations` loop of check_locks_and_process after
\* one iteration that ended as `op`: _process_violation lets no exception
\* out, so the loop goes on to the next violation.
Remaining(vs, op) == Tail(vs)

\* A loop that is left with one violation still to handle.
LoopDoneEarly(vs) == Len(vs) <= 1

\* The loop of check_locks_and_process has handled every violation.
LoopDone(vs) == vs = <<>>

\* The two callers of LockMonitorApp._cleanup_old_strikes.
AppSweeps == {"cycle_cleanup", "weekly_cleanup"}

\* For a sweep that follows at once a completed run of the same sweep: the
\* number of records that run cleaned; -1 for any other operation.
RepeatOf(kinds) ==
    IF lastOp.op \in kinds /\ lastOp.status \in {"done", "type_error"}
    THEN lastOp.cleaned ELSE -1

\* The second installation before its first cycle.
NoTwin ==
    [users |-> <<>>, directory |-> {"A"}, violations |-> <<>>, last |-> Op("init")]

Init ==
    /\ now = 0
    /\ users = <<>>
    /\ directory = {"A"}
    /\ enable_emails = TRUE
    /\ enable_cloud_deletion = TRUE
    /\ pc = "idle"
    /\ lock_data = <<>>
    /\ violations = <<>>
    /\ fresh = [u \in Identities |-> 0]
    /\ lastOp = Op("init")
    /\ weekly = NoSession
    /\ twin = NoTwin

\* Time passes between two cycles, up to `limit`.
TickTo(limit) ==
    /\ pc = "idle"
    /\ now < limit
    /\ now' = now + 1
    /\ lastOp' = Op("tick")
    /\ UNCHANGED <<users, directory, enable_emails, enable_cloud_deletion,
                   pc, lock_data, violations, fresh, weekly, twin>>

\* `fresh` after the rows in `changed` were changed by something other than
\* an escalation.
Spoil(tblBefore, tblAfter) ==
    [u \in Identities |->
        IF \E i \in 1..Len(tblBefore) :
              tblBefore[i].card_uid = u /\ tblAfter[i] # tblBefore[i]
        THEN -1 ELSE fresh[u]]

\* check_locks_and_process up to the loop over the violations: the poll and
\* the detection.  Without lock data (the login failed, or no unit answered)
\* the cycle ends at once.  The poll returns at most n devices of the given
\* kinds; they are spread over the units when `spread`, and all of the first
\* unit otherwise.
CheckLocks(kinds, n, spread) ==
    /\ pc = "idle"
    /\ \E authenticated \in BOOLEAN :
       \E devs \in (IF authenticated THEN DeviceLists(kinds, n) ELSE {<<>>}),
          ok1 \in (IF authenticated THEN BOOLEAN ELSE {FALSE}),
          ok2 \in (IF authenticated /\ spread THEN BOOLEAN ELSE {FALSE}) :
       \E cut \in (IF spread THEN 0..Len(devs) ELSE {Len(devs)}) :
          /\ ok1 \/ cut = 0
          /\ ok2 \/ cut = Len(devs)
          /\ lock_data' = get_lock_status(authenticated,
                                          Responses(devs, cut, ok1, ok2))
          /\ LET op == [Op("check_locks") EXCEPT
                          !.units = (IF ok1 THEN 1 ELSE 0) + (IF ok2 THEN 1 ELSE 0),
                          !.rejected = Rejected(devs)]
             IN  IF NoLockData(lock_data')
                 THEN /\ lastOp' = [op EXCEPT !.status = "no_data"]
                      /\ UNCHANGED <<pc, violations>>
                 ELSE /\ violations' = check_for_violations(users, lock_data', 1)
                      /\ pc' = "processing"
                      /\ lastOp' = [op EXCEPT !.status = "detected",
                                              !.found = Len(violations')]
    /\ UNCHANGED <<now, users, directory, enable_emails, enable_cloud_deletion,
                   fresh, weekly, twin>>

\* _handle_strike_three revoking whatever enable_cloud_deletion says.
AfterStrikeRevokesAlways(op, card_uid, info) ==
    LET strike3 == info.strike_type = "strike_3"
        done == [op EXCEPT !.status = "done",
                           !.strike_type = info.strike_type,
                           !.counter = info.counter,
                           !.location = info.location,
                           !.lock_id = info.lock_id]
    IN  \E emailOk \in (IF enable_emails THEN BOOLEAN ELSE {FALSE}) :
        LET mailed == [done EXCEPT !.email = IF ~enable_emails THEN "skipped"
                                             ELSE IF emailOk THEN "sent" ELSE "failed"]
        IN  IF ~strike3
            THEN /\ lastOp' = mailed
                 /\ UNCHANGED directory
            ELSE \E cloudOk, removeOk \in BOOLEAN :
                 /\ lastOp' = [mailed EXCEPT
                                 !.cloud = IF cloudOk THEN "deleted" ELSE "failed",
                                 !.excel = IF removeOk THEN "deleted" ELSE "failed"]
                 /\ directory' = IF removeOk THEN directory \ {card_uid}
                                 ELSE directory

\* _handle_strike_three whose Excel removal reports success and leaves the
\* card in the workbook.
AfterStrikeKeepsDirectory(op, card_uid, info) ==
    LET strike3 == info.strike_type = "strike_3"
        done == [op EXCEPT !.status = "done",
                           !.strike_type = info.strike_type,
                           !.counter = info.counter,
                           !.location = info.location,
                           !.lock_id = info.lock_id]
    IN  \E emailOk \in (IF enable_emails THEN BOOLEAN ELSE {FALSE}) :
        LET mailed == [done EXCEPT !.email = IF ~enable_emails THEN "skipped"
                                             ELSE IF emailOk THEN "sent" ELSE "failed"]
        IN  IF ~strike3
            THEN /\ lastOp' = mailed
                 /\ UNCHANGED directory
            ELSE IF ~enable_cloud_deletion
            THEN /\ lastOp' = [mailed EXCEPT !.cloud = "skipped", !.excel = "skipped"]
                 /\ UNCHANGED directory
            ELSE \E cloudOk, removeOk \in BOOLEAN :
                 /\ lastOp' = [mailed EXCEPT
                                 !.cloud = IF cloudOk THEN "deleted" ELSE "failed",
                                 !.excel = IF removeOk THEN "deleted" ELSE "failed"]
                 /\ UNCHANGED directory

\* A handling that gives up at the first failure: no revocation after a
\* failed mail, no Excel removal after a failed cloud call.
AfterStrikeStopsOnFailure(op, card_uid, info) ==
    LET strike3 == info.strike_type = "strike_3"
        done == [op EXCEPT !.status = "done",
                           !.strike_type = info.strike_type,
                           !.counter = info.counter,
                           !.location = info.location,
                           !.lock_id = info.lock_id]
    IN  \E emailOk \in (IF enable_emails THEN BOOLEAN ELSE {FALSE}) :
        LET mailed == [done EXCEPT !.email = IF ~enable_emails THEN "skipped"
                                             ELSE IF emailOk THEN "sent" ELSE "failed"]
        IN  IF ~strike3 \/ mailed.email = "failed"
            THEN /\ lastOp' = mailed
                 /\ UNCHANGED directory
            ELSE IF ~enable_cloud_deletion
            THEN /\ lastOp' = [mailed EXCEPT !.cloud = "skipped", !.excel = "skipped"]
                 /\ UNCHANGED directory
            ELSE \E cloudOk, removeOk \in BOOLEAN :
                 /\ lastOp' = [mailed EXCEPT
                                 !.cloud = IF cloudOk THEN "deleted" ELSE "failed",
                                 !.excel = IF ~cloudOk THEN ""
                                           ELSE IF removeOk THEN "deleted" ELSE "failed"]
                 /\ directory' = IF cloudOk /\ removeOk THEN directory \ {card_uid}
                                 ELSE directory

\* What _process_violation does after a committed strike: the mail, and for
\* strike_3 _handle_strike_three (the cloud call, then the Excel removal).
AfterStrike(op, card_uid, info) ==
    LET strike3 == info.strike_type = "strike_3"
        done == [op EXCEPT !.status = "done",
                           !.strike_type = info.strike_type,
                           !.counter = info.counter,
                           !.location = info.location,
                           !.lock_id = info.lock_id]
    IN  \E emailOk \in (IF enable_emails THEN BOOLEAN ELSE {FALSE}) :
        LET mailed == [done EXCEPT !.email = IF ~enable_emails THEN "skipped"
                                             ELSE IF emailOk THEN "sent" ELSE "failed"]
        IN  IF ~strike3
            THEN /\ lastOp' = mailed
                 /\ UNCHANGED directory
            ELSE IF ~enable_cloud_deletion
            THEN /\ lastOp' = [mailed EXCEPT !.cloud = "skipped", !.excel = "skipped"]
                 /\ UNCHANGED directory
            ELSE \E cloudOk, removeOk \in BOOLEAN :
                 /\ lastOp' = [mailed EXCEPT
                                 !.cloud = IF cloudOk THEN "deleted" ELSE "failed",
                                 !.excel = IF removeOk THEN "deleted" ELSE "failed"]
                 /\ directory' = IF removeOk THEN directory \ {card_uid}
                                 ELSE directory

\* One iteration of the loop of check_locks_and_process:
\* LockMonitorApp._process_violation on the next violation.  The directory
\* lookup and the commit each succeed or fail.
ProcessViolation ==
    /\ pc = "processing"
    /\ violations # <<>>
    /\ LET violation == Head(violations)
           card_uid == violation.card_uid
           op == [CycleOp("process_violation") EXCEPT
                    !.card_uid = card_uid,
                    !.processed = @ + 1]
           failed == [op EXCEPT !.failed = @ + 1]
       IN  \E lookupOk \in BOOLEAN :
           IF ~get_user_info(directory, card_uid, lookupOk)
           THEN /\ lastOp' = [failed EXCEPT !.status = "no_user_info"]
                /\ UNCHANGED <<users, directory, fresh>>
           ELSE \E commitOk \in BOOLEAN :
                LET res == process_strike(users, card_uid, violation, commitOk)
                IN  IF ~res.ok
                    THEN /\ lastOp' = [failed EXCEPT !.status = "error"]
                         /\ users' = res.tbl
                         /\ UNCHANGED <<directory, fresh>>
                    ELSE /\ res.info.counter <= MaxCounter
                         /\ users' = res.tbl
                         /\ fresh' = [fresh EXCEPT ![card_uid] =
                                        IF @ \in 0..(MaxTracked - 1) THEN @ + 1 ELSE -1]
                         /\ AfterStrike(op, card_uid, res.info)
    /\ violations' = Remaining(violations, lastOp')
    /\ lock_data' = <<>>
    /\ UNCHANGED <<now, enable_emails, enable_cloud_deletion, pc, weekly, twin>>

\* The end of check_locks_and_process: the decay sweep after the last
\* violation.
CycleCleanup ==
    /\ pc = "processing"
    /\ LoopDone(violations)
    /\ \E commitOk \in BOOLEAN :
         LET res == app_cleanup_old_strikes(users, commitOk)
         IN  /\ users' = res.tbl
             /\ fresh' = Spoil(users, res.tbl)
             /\ lastOp' = [CycleOp("cycle_cleanup") EXCEPT
                              !.status = res.status,
                              !.cleaned = res.cleaned,
                              !.repeat = RepeatOf(AppSweeps)]
    /\ pc' = "idle"
    /\ lock_data' = <<>>
    /\ UNCHANGED <<now, directory, enable_emails, enable_cloud_deletion,
                   violations, weekly, twin>>

\* The weekly job of run_scheduler: LockMonitorApp._cleanup_old_strikes on
\* its own, as one step between two cycles: the two jobs are scheduled an
\* hour apart.  (SpecConcurrent has the job run beside a cycle.)
WeeklyCleanup ==
    /\ pc = "idle"
    /\ \E commitOk \in BOOLEAN :
         LET res == app_cleanup_old_strikes(users, commitOk)
         IN  /\ users' = res.tbl
             /\ fresh' = Spoil(users, res.tbl)
             /\ lastOp' = [Op("weekly_cleanup") EXCEPT
                              !.status = res.status,
                              !.cleaned = res.cleaned,
                              !.repeat = RepeatOf(AppSweeps)]
    /\ UNCHANGED <<now, directory, enable_emails, enable_cloud_deletion,
                   pc, lock_data, violations, weekly, twin>>

\* StrikeService.cleanup_old_strikes called on the ledger.
ServiceCleanup ==
    /\ pc = "idle"
    /\ \E commitOk \in BOOLEAN :
         LET res == svc_cleanup_old_strikes(users, commitOk)
         IN  /\ users' = res.tbl
             /\ fresh' = Spoil(users, res.tbl)
             /\ lastOp' = [Op("service_cleanup") EXCEPT
                              !.status = res.status,
                              !.cleaned = res.cleaned,
                              !.repeat = RepeatOf({"service_cleanup"})]
    /\ UNCHANGED <<now, directory, enable_emails, enable_cloud_deletion,
                   pc, lock_data, violations, weekly, twin>>

\* The number of strike dates set in the row of a card.
StrikesHeld(tbl, card_uid) ==
    LET i == FindUser(tbl, card_uid)
    IN  IF i = 0 THEN 0
        ELSE (IF tbl[i].strike_1_date # NULL THEN 1 ELSE 0)
             + (IF tbl[i].strike_2_date # NULL THEN 1 ELSE 0)

\* StrikeService.reset_user_strikes called for a card.
ResetUserStrikes ==
    /\ pc = "idle"
    /\ \E card_uid \in Identities, commitOk \in BOOLEAN :
         LET res == reset_user_strikes(users, card_uid, commitOk)
         IN  /\ users' = res.tbl
             /\ fresh' = Spoil(users, res.tbl)
             /\ lastOp' = [Op("reset_user_strikes") EXCEPT
                              !.card_uid = card_uid,
                              !.status = IF res.ok THEN "done" ELSE "error",
                              !.cleaned = IF res.ok THEN StrikesHeld(users, card_uid)
                                          ELSE 0]
    /\ UNCHANGED <<now, directory, enable_emails, enable_cloud_deletion,
                   pc, lock_data, violations, weekly, twin>>

Next ==
    \/ TickTo(MaxTime)
    \/ CheckLocks(CoreDevices, MaxLocks, TRUE)
    \/ ProcessViolation
    \/ CycleCleanup
    \/ WeeklyCleanup
    \/ ServiceCleanup
    \/ ResetUserStrikes

Spec == Init /\ [][Next]_vars

\* The detection cycle alone, polling devices of every kind.
NextDetect ==
    \/ TickTo(MaxTimeDetect)
    \/ CheckLocks(DetectDevices, MaxLocks, FALSE)
    \/ ProcessViolation
    \/ CycleCleanup

SpecDetect == Init /\ [][NextDetect]_vars

\* The end-to-end scenario of one holder.  A lock the holder has engaged
\* for longer than the violation window.
HolderDevices == {Device(TRUE, "A", Timestamp("Z", VIOLATION_HOURS + 1))}

\* The holder is in the directory and the last escalation of the card, if
\* there was one, is further back than the cooldown window and less far
\* back than the decay window.
Spaced ==
    /\ "A" \in directory
    /\ LET i == FindUser(users, "A")
       IN  \/ i = 0
           \/ /\ now - users[i].last_violation_date > STRIKE_COOLDOWN_HOURS
              /\ now - users[i].last_violation_date < STRIKE_CLEANUP_DAYS

\* The polls of the scenario: without a lock of the holder at any time, and
\* with one violating lock of the holder when the cycles are spaced.
EndToEndPoll ==
    /\ CheckLocks(HolderDevices, MaxLocks, FALSE)
    /\ \A k \in 1..Len(lock_data') :
          \/ Len(lock_data'[k].locks) = 0
          \/ Len(lock_data'[k].locks) = 1 /\ Spaced

\* The holder is identifiable and the ledger works: every violation ends in
\* a committed strike.
EndToEndHandle == ProcessViolation /\ lastOp'.status = "done"

NextEndToEnd ==
    \/ TickTo(MaxTimeEndToEnd)
    \/ EndToEndPoll
    \/ EndToEndHandle
    \/ CycleCleanup
    \/ WeeklyCleanup

SpecEndToEnd == Init /\ [][NextEndToEnd]_vars

\* The ledger of two holders, both in the directory and every escalation
\* committed: cycles with their sweep, and resets.
InitLedger ==
    /\ now = 0
    /\ users = <<>>
    /\ directory = Identities
    /\ enable_emails = TRUE
    /\ enable_cloud_deletion = TRUE
    /\ pc = "idle"
    /\ lock_data = <<>>
    /\ violations = <<>>
    /\ fresh = [u \in Identities |-> 0]
    /\ lastOp = Op("init")
    /\ weekly = NoSession
    /\ twin = NoTwin

\* No cycle runs for longer than the decay window.
Pause ==
    /\ pc = "idle"
    /\ now + STRIKE_CLEANUP_DAYS + 1 <= MaxTimeLedger
    /\ now' = now + STRIKE_CLEANUP_DAYS + 1
    /\ lastOp' = Op("tick")
    /\ UNCHANGED <<users, directory, enable_emails, enable_cloud_deletion,
                   pc, lock_data, violations, fresh, weekly, twin>>

NextLedger ==
    \/ Pause
    \/ CheckLocks(CoreDevices, MaxLocks, FALSE)
    \/ EndToEndHandle
    \/ CycleCleanup
    \/ ResetUserStrikes

SpecLedger == InitLedger /\ [][NextLedger]_vars

\* The weekly job running in a worker thread of the scheduler beside a
\* cycle.  The job has its own session: the rows as its query loaded them and
\* as its loop left them.  Reading takes no lock, so the cycle may commit
\* between the job's query and the job's commit.
\*
\* The UPDATE a session's commit issues for one row: the columns whose value
\* the session changed are written, the others keep what the table holds.
Flush(row, loaded, dirty) ==
    [f \in DOMAIN row |-> IF dirty[f] # loaded[f] THEN dirty[f] ELSE row[f]]

\* The query and the loop of _cleanup_old_strikes in the job's session.
WeeklyLoad ==
    /\ ~weekly.running
    /\ LET cutoff_date == Minus(UtcNow, STRIKE_CLEANUP_DAYS)
       IN  weekly' = [running |-> TRUE,
                      loaded |-> users,
                      dirty |-> [i \in 1..Len(users) |->
                                   IF /\ AppSweepSelects(users[i], cutoff_date)
                                      /\ AppSweepClears(users[i], cutoff_date)
                                   THEN Cleared(users[i]) ELSE users[i]]]
    /\ UNCHANGED <<now, users, directory, enable_emails, enable_cloud_deletion,
                   pc, lock_data, violations, fresh, lastOp, twin>>

\* session.commit() of the job, or the rollback when it fails.
WeeklyCommit ==
    /\ weekly.running
    /\ \E commitOk \in BOOLEAN :
          users' = IF commitOk
                   THEN [i \in 1..Len(users) |->
                           IF i <= Len(weekly.loaded)
                           THEN Flush(users[i], weekly.loaded[i], weekly.dirty[i])
                           ELSE users[i]]
                   ELSE users
    /\ fresh' = Spoil(users, users')
    /\ weekly' = NoSession
    /\ UNCHANGED <<now, directory, enable_emails, enable_cloud_deletion,
                   pc, lock_data, violations, lastOp, twin>>

NextConcurrent ==
    \/ TickTo(MaxTimeConcurrent)
    \/ CheckLocks(HolderDevices, MaxLocks, FALSE)
    \/ ProcessViolation
    \/ CycleCleanup
    \/ WeeklyLoad
    \/ WeeklyCommit

SpecConcurrent == Init /\ [][NextConcurrent]_vars

\* Cycles over polls of up to MaxBurst stale locks of one holder.
NextBurst ==
    \/ TickTo(MaxTimeBurst)
    \/ CheckLocks(HolderDevices, MaxBurst, FALSE)
    \/ ProcessViolation
    \/ CycleCleanup

SpecBurst == Init /\ [][NextBurst]_vars

\* One uninterrupted engagement: the holder engaged the lock before the
\* first cycle, longer ago than the violation window, and every poll that
\* returns the lock returns it with that same lastOpenCloseDate.
EngagedDevices ==
    {Device(TRUE, "A", [form |-> "Z", wall |-> 0 - (VIOLATION_HOURS + 1), off |-> 0])}

NextEngaged ==
    \/ TickTo(MaxTimeEngaged)
    \/ CheckLocks(EngagedDevices, MaxLocks, FALSE)
    \/ ProcessViolation
    \/ CycleCleanup

SpecEngaged == Init /\ [][NextEngaged]_vars

\* An installation started with --test-mode, --no-emails or
\* --no-cloud-deletion, and beside it a second installation with mails and
\* revocation enabled that is given the same inputs: the same polls at the
\* same times, and the same answers of the workbook, the database and the
\* lock service.  The second installation follows the first step by step.
InitFlags ==
    /\ now = 0
    /\ users = <<>>
    /\ directory = {"A"}
    /\ enable_emails \in BOOLEAN
    /\ enable_cloud_deletion \in BOOLEAN
    /\ ~(enable_emails /\ enable_cloud_deletion)
    /\ pc = "idle"
    /\ lock_data = <<>>
    /\ violations = <<>>
    /\ fresh = [u \in Identities |-> 0]
    /\ lastOp = Op("init")
    /\ weekly = NoSession
    /\ twin = NoTwin

\* The second installation has taken the step the first took last.
Synced == lastOp.op \in {"init", "tick"} \/ twin.last = lastOp

\* _process_violation of the second installation on its next violation, the
\* workbook, the commit and the Excel removal answering as given.
TwinHandle(lookupOk, commitOk, removeOk) ==
    LET violation == Head(twin.violations)
        card_uid == violation.card_uid
        rest == [twin EXCEPT !.violations = Tail(twin.violations), !.last = lastOp]
    IN  IF ~get_user_info(twin.directory, card_uid, lookupOk)
        THEN rest
        ELSE LET res == process_strike(twin.users, card_uid, violation, commitOk)
             IN  IF ~res.ok
                 THEN rest
                 ELSE [rest EXCEPT
                         !.users = res.tbl,
                         !.directory =
                            IF res.info.strike_type = "strike_3" /\ removeOk
                            THEN twin.directory \ {card_uid} ELSE twin.directory]

\* The step of the second installation.  Its inputs are those of the first
\* installation's step as far as that step met them: a workbook that could
\* not be read, a commit that failed, an Excel removal that failed.
TwinFollow ==
    /\ ~Synced
    /\ IF lastOp.op = "check_locks" /\ lastOp.status = "detected"
       THEN twin' = [twin EXCEPT
                        !.violations = check_for_violations(twin.users, lock_data, 1),
                        !.last = lastOp]
       ELSE IF lastOp.op = "process_violation" /\ twin.violations # <<>>
       THEN \E lookupOk \in (IF lastOp.status # "no_user_info" THEN {TRUE}
                              ELSE IF lastOp.card_uid \in directory THEN {FALSE}
                              ELSE BOOLEAN),
               commitOk \in (IF lastOp.status = "error" THEN {FALSE}
                              ELSE IF lastOp.status = "done" THEN {TRUE}
                              ELSE BOOLEAN),
               removeOk \in (IF lastOp.excel = "deleted" THEN {TRUE}
                              ELSE IF lastOp.excel = "failed" THEN {FALSE}
                              ELSE BOOLEAN) :
               twin' = TwinHandle(lookupOk, commitOk, removeOk)
       ELSE IF lastOp.op = "cycle_cleanup"
       THEN twin' = [twin EXCEPT
                        !.users = app_cleanup_old_strikes(
                                      twin.users, lastOp.status = "done").tbl,
                        !.last = lastOp]
       ELSE twin' = [twin EXCEPT !.last = lastOp]
    /\ UNCHANGED <<now, users, directory, enable_emails, enable_cloud_deletion,
                   pc, lock_data, violations, fresh, lastOp, weekly>>

FlagsTick == Synced /\ TickTo(MaxTimeFlags)

FlagsPoll == Synced /\ CheckLocks(HolderDevices, MaxLocks, FALSE)

FlagsHandle == Synced /\ ProcessViolation

FlagsSweep == Synced /\ CycleCleanup

NextFlags ==
    \/ FlagsTick
    \/ FlagsPoll
    \/ FlagsHandle
    \/ FlagsSweep
    \/ TwinFollow

SpecFlags == InitFlags /\ [][NextFlags]_vars

\* -------------------------------------------------------------- properties
\* The committed row of a card (the card has one).
RowOf(card_uid) == users[FindUser(users, card_uid)]

\* The last operation was a committed escalation.
Escalated == lastOp.op = "process_violation" /\ lastOp.status = "done"

\* C1: the first three escalations of a card that had no row, nothing else
\* having changed the row in between, return strike_1, strike_2 and strike_3
\* in this order, and after the third the row has both strike dates empty
\* and counter 1.
C1_FreshCardThreeStrikes ==
    /\ Escalated /\ fresh[lastOp.card_uid] \in 1..3
          => lastOp.strike_type =
                <<"strike_1", "strike_2", "strike_3">>[fresh[lastOp.card_uid]]
    /\ \A u \in Identities :
          fresh[u] = 3 => /\ FindUser(users, u) # 0
                          /\ RowOf(u).strike_1_date = NULL
                          /\ RowOf(u).strike_2_date = NULL
                          /\ RowOf(u).counter = 1

\* The third escalation of a fresh card has just been committed.
C1_Witness ==
    /\ Escalated
    /\ fresh[lastOp.card_uid] = 3
    /\ lastOp.strike_type = "strike_3"

C3_TwoStrikesEscalation ==
    [][ /\ lastOp'.op = "process_violation"
        /\ lastOp'.status = "done"
        /\ FindUser(users, lastOp'.card_uid) # 0
        /\ users[FindUser(users, lastOp'.card_uid)].strike_1_date # NULL
        /\ users[FindUser(users, lastOp'.card_uid)].strike_2_date # NULL
        => LET i == FindUser(users, lastOp'.card_uid)
               c == users[i].counter
           IN  /\ users'[i].strike_1_date = NULL
               /\ users'[i].strike_2_date = NULL
               /\ users'[i].counter = c + 1
               /\ lastOp'.counter = c + 1
               /\ lastOp'.strike_type = IF c = 0 THEN "strike_3" ELSE "counter"
      ]_vars

\* A repeat offender has just been escalated from the two-strikes state.
C3_Witness ==
    /\ Escalated
    /\ lastOp.strike_type = "counter"
    /\ lastOp.counter = 2
    /\ RowOf(lastOp.card_uid).strike_1_date = NULL

\* C4: after every committed escalation, whatever its outcome, the card's
\* last_violation_date and updated_at are the current time.
C4_EscalationTouches ==
    Escalated
        => /\ FindUser(users, lastOp.card_uid) # 0
           /\ RowOf(lastOp.card_uid).last_violation_date = now
           /\ RowOf(lastOp.card_uid).updated_at = now

\* A strike_3 has just been committed for a row last touched earlier.
C4_Witness ==
    /\ Escalated
    /\ lastOp.strike_type = "strike_3"
    /\ RowOf(lastOp.card_uid).created_at < now
    /\ RowOf(lastOp.card_uid).last_violation_date = now

\* What the cooldown is meant to be: the card has a row with a
\* last_violation_date less than the cooldown window ago.
WithinCooldown(card_uid) ==
    /\ FindUser(users, card_uid) # 0
    /\ RowOf(card_uid).last_violation_date # NULL
    /\ now - RowOf(card_uid).last_violation_date < STRIKE_COOLDOWN_HOURS

\* C5 as stated: is_user_in_cooldown is true exactly for a card with a row
\* whose last_violation_date is set and less than the cooldown window ago,
\* and so false at exactly the window and false without a row.
C5_CooldownIff ==
    \A u \in Identities : is_user_in_cooldown(users, u) <=> WithinCooldown(u)

\* The detection of a cycle has just run: lock_data is the poll it ran on and
\* violations the list it returned.
DetectedNow == lastOp.op = "check_locks" /\ lastOp.status = "detected"

\* C6 as stated: a detection run never returns a violation for a card whose
\* last committed escalation is less than the cooldown window ago.
C6_CooldownSuppresses ==
    DetectedNow =>
        \A i \in 1..Len(violations) : ~WithinCooldown(violations[i].card_uid)

\* The locks of the poll, each with its unit.
PolledLocks ==
    UNION {{<<lock_data[k].unit, lock_data[k].locks[j]>> :
                j \in 1..Len(lock_data[k].locks)} : k \in 1..Len(lock_data)}

\* The detection returned a violation for this lock of the poll.
Emitted(pl) ==
    \E i \in 1..Len(violations) :
        /\ violations[i].location = pl[1]
        /\ violations[i].lock_id = pl[2].lock_id

\* The instant a timestamp string denotes, read as UTC when it carries no
\* offset.
Instant(ts) == ts.wall - ts.off

\* A lock that is engaged, has a holder and carries a full timestamp: with
\* the UTC marker, with an offset, or without offset.
Complete(lock) ==
    /\ lock.is_locked
    /\ lock.locked_by_uid \notin {NoUid, ""}
    /\ lock.locked_at.form \in {"Z", "offset", "naive"}

\* C7: a lock of the poll whose timestamp is not strictly older than
\* now - VIOLATION_HOURS never yields a violation, and an engaged lock with a
\* holder and a full timestamp (UTC marker, offset, or none and read as UTC)
\* strictly older than that yields one unless is_user_in_cooldown holds the
\* card back.
C7_StaleIffViolation ==
    DetectedNow =>
        \A pl \in PolledLocks :
            /\ Emitted(pl) => Instant(pl[2].locked_at) < now - VIOLATION_HOURS
            /\ /\ Complete(pl[2])
               /\ Instant(pl[2].locked_at) < now - VIOLATION_HOURS
               /\ ~is_user_in_cooldown(users, pl[2].locked_by_uid)
               => Emitted(pl)

\* A poll with a lock engaged for exactly the window, which yields nothing,
\* and a lock with an offset timestamp engaged for longer, which yields a
\* violation.
C7_Witness ==
    /\ DetectedNow
    /\ \E pl \in PolledLocks :
          /\ Complete(pl[2])
          /\ Instant(pl[2].locked_at) = now - VIOLATION_HOURS
          /\ ~Emitted(pl)
    /\ \E pl \in PolledLocks :
          /\ pl[2].locked_at.form = "offset"
          /\ Instant(pl[2].locked_at) < now - VIOLATION_HOURS
          /\ Emitted(pl)

\* C8: a lock of the poll that is not engaged, has no holder (none or the
\* empty string) or has no timestamp never yields a violation.
C8_IncompleteNeverViolation ==
    DetectedNow =>
        \A pl \in PolledLocks :
            \/ ~pl[2].is_locked
            \/ pl[2].locked_by_uid \in {NoUid, ""}
            \/ pl[2].locked_at.form = "none"
            => ~Emitted(pl)

\* A poll with a lock that was engaged long ago by the empty holder, which
\* yields nothing, next to a lock that yields a violation.
C8_Witness ==
    /\ DetectedNow
    /\ \E pl \in PolledLocks :
          /\ pl[2].is_locked
          /\ pl[2].locked_by_uid = ""
          /\ Instant(pl[2].locked_at) < now - VIOLATION_HOURS
          /\ ~Emitted(pl)
    /\ \E pl \in PolledLocks : Emitted(pl)

\* The newest strike date of a row is older than now - STRIKE_CLEANUP_DAYS.
Decayed(user) ==
    LET set == {user.strike_1_date, user.strike_2_date} \ {NULL}
    IN  /\ set # {}
        /\ \A d \in set : d < now - STRIKE_CLEANUP_DAYS

\* C9: a committed run of LockMonitorApp._cleanup_old_strikes clears both
\* strike dates of exactly the rows whose newest strike date is older than
\* now - STRIKE_CLEANUP_DAYS and leaves every other row as it was, a row
\* with an old strike_1_date and a recent strike_2_date included.
C9_SweepClearsByNewest ==
    [][ lastOp'.op \in AppSweeps /\ lastOp'.status = "done"
        => /\ Len(users') = Len(users)
           /\ \A i \in 1..Len(users) :
                 IF Decayed(users[i])
                 THEN /\ users'[i].strike_1_date = NULL
                      /\ users'[i].strike_2_date = NULL
                 ELSE users'[i] = users[i]
      ]_vars

\* The sweep of a cycle has just cleared a row.
C9_Witness ==
    /\ lastOp.op = "cycle_cleanup"
    /\ lastOp.status = "done"
    /\ lastOp.cleaned = 1
    /\ \E i \in 1..Len(users) :
          users[i].strike_1_date = NULL /\ users[i].updated_at = now

\* The strike dates of the table.
StrikeDates(tbl) ==
    [i \in 1..Len(tbl) |-> <<tbl[i].strike_1_date, tbl[i].strike_2_date>>]

\* C10: a decay sweep that runs at once after a completed run of the same
\* implementation cleans no row and leaves the strike dates of every row as
\* that run left them.
C10_SweepIdempotent ==
    [][ \/ /\ lastOp.op \in AppSweeps /\ lastOp.status = "done"
           /\ lastOp'.op \in AppSweeps /\ lastOp'.status = "done"
        \/ /\ lastOp.op = "service_cleanup"
           /\ lastOp.status \in {"done", "type_error"}
           /\ lastOp'.op = "service_cleanup"
           /\ lastOp'.status \in {"done", "type_error"}
        => /\ lastOp'.cleaned = 0
           /\ StrikeDates(users') = StrikeDates(users)
      ]_vars

\* A sweep has just run at once after a sweep that cleared a row.
C10_Witness ==
    /\ lastOp.op \in AppSweeps
    /\ lastOp.status = "done"
    /\ lastOp.repeat = 1
    /\ lastOp.cleaned = 0

\* The three decay sweeps: the cycle's, the weekly job's and the ledger
\* service's.
AllSweeps == AppSweeps \cup {"service_cleanup"}

\* C11: a decay sweep of either implementation leaves card_uid, counter,
\* last_violation_date and created_at of every row as they were, adds and
\* removes no row, and does not modify a row that has neither strike date set.
C11_SweepFrame ==
    [][ lastOp'.op \in AllSweeps
        => /\ Len(users') = Len(users)
           /\ \A i \in 1..Len(users) :
                 /\ users'[i].card_uid = users[i].card_uid
                 /\ users'[i].counter = users[i].counter
                 /\ users'[i].last_violation_date = users[i].last_violation_date
                 /\ users'[i].created_at = users[i].created_at
                 /\ users[i].strike_1_date = NULL /\ users[i].strike_2_date = NULL
                       => users'[i] = users[i]
      ]_vars

\* A sweep has just cleared the strikes of a repeat offender, whose counter
\* and last_violation_date are still there.
C11_Witness ==
    /\ lastOp.op \in AppSweeps
    /\ lastOp.cleaned = 1
    /\ \E i \in 1..Len(users) :
          /\ users[i].counter = 1
          /\ users[i].strike_1_date = NULL
          /\ users[i].updated_at = now
          /\ users[i].last_violation_date # NULL
          /\ users[i].last_violation_date < now

\* C12: in every step the counter of every row grows by exactly one when the
\* step is a committed escalation of that card from the two-strikes state,
\* and stays as it is otherwise; rows are never removed and a new row starts
\* with counter 0.
C12_CounterMonotone ==
    [][ /\ Len(users') >= Len(users)
        /\ \A i \in 1..Len(users') :
              IF i > Len(users)
              THEN users'[i].counter = 0
              ELSE /\ users'[i].card_uid = users[i].card_uid
                   /\ users'[i].counter =
                         IF /\ lastOp'.op = "process_violation"
                            /\ lastOp'.status = "done"
                            /\ lastOp'.card_uid = users[i].card_uid
                            /\ users[i].strike_1_date # NULL
                            /\ users[i].strike_2_date # NULL
                         THEN users[i].counter + 1
                         ELSE users[i].counter
      ]_vars

\* An administrative reset has just been committed for a card with counter 2.
C12_Witness ==
    /\ lastOp.op = "reset_user_strikes"
    /\ lastOp.status = "done"
    /\ FindUser(users, lastOp.card_uid) # 0
    /\ RowOf(lastOp.card_uid).counter = 2

\* C13: an escalation whose transaction fails leaves the users table exactly
\* as it was: no row is changed and no row is added for a card that had none.
C13_FailedEscalationRollsBack ==
    [][ lastOp'.op = "process_violation" /\ lastOp'.status = "error"
        => users' = users
      ]_vars

\* The escalation of a card without a row has just failed, and the card
\* still has no row.
C13_Witness ==
    /\ lastOp.op = "process_violation"
    /\ lastOp.status = "error"
    /\ lastOp.card_uid \in directory
    /\ FindUser(users, lastOp.card_uid) = 0

\* C14: while violations of a cycle remain, the only thing that happens is
\* the handling of the first of them, which removes that one from the list
\* whatever its outcome (no user info, failed transaction, committed strike
\* with or without mail and revocation); so the violations detected are
\* handled one by one in list order, and when the cycle reaches its sweep
\* as many were handled as were detected.
C14_EveryViolationHandled ==
    [][ /\ lastOp'.op = "process_violation"
           => /\ pc = "processing" /\ pc' = "processing"
              /\ violations # <<>>
              /\ lastOp'.card_uid = Head(violations).card_uid
              /\ violations' = Tail(violations)
              /\ lastOp'.processed = lastOp.processed + 1
              /\ lastOp'.processed + Len(violations') = lastOp'.found
        /\ pc = "processing" /\ violations # <<>>
           => lastOp'.op = "process_violation"
        /\ lastOp'.op = "cycle_cleanup"
           => lastOp'.processed = lastOp'.found
      ]_vars

\* The second violation of a cycle has just been escalated after the
\* handling of the first had failed.
C14_Witness ==
    /\ lastOp.op = "process_violation"
    /\ lastOp.status = "done"
    /\ lastOp.processed = 2
    /\ lastOp.failed = 1

\* C15 as stated: after a committed escalation with outcome strike_3 or
\* counter the notification was dispatched and the revocation was triggered.
C15_RevocationOnThirdAndBeyond ==
    Escalated /\ lastOp.strike_type \in {"strike_3", "counter"}
        => /\ lastOp.email \in {"sent", "failed"}
           /\ lastOp.cloud \in {"deleted", "failed"}

\* The revocation or the removal from the directory failed in the last
\* operation, a strike_3.
RevocationFailed(op) ==
    /\ op.op = "process_violation"
    /\ op.status = "done"
    /\ op.strike_type = "strike_3"
    /\ op.cloud = "failed" \/ op.excel = "failed"

\* C16: when the revocation or the removal from the directory fails after a
\* strike_3, the row stays as the escalation committed it (strike dates
\* empty, counter one higher, last_violation_date now), and the cycle goes
\* on with the next violation of the list.
C16_RevocationFailureKeepsLedger ==
    [][ /\ RevocationFailed(lastOp')
           => LET i == FindUser(users, lastOp'.card_uid)
              IN  /\ i # 0
                  /\ users'[i].strike_1_date = NULL
                  /\ users'[i].strike_2_date = NULL
                  /\ users'[i].counter = users[i].counter + 1
                  /\ users'[i].last_violation_date = now
                  /\ violations' = Tail(violations)
                  /\ pc' = "processing"
        /\ RevocationFailed(lastOp) /\ violations # <<>>
           => /\ lastOp'.op = "process_violation"
              /\ lastOp'.card_uid = Head(violations).card_uid
      ]_vars

\* Both the revocation and the removal have just failed, with a violation
\* still to handle.
C16_Witness ==
    /\ RevocationFailed(lastOp)
    /\ lastOp.cloud = "failed"
    /\ lastOp.excel = "failed"
    /\ violations # <<>>
    /\ RowOf(lastOp.card_uid).counter = 1

\* C17: handling a violation whose card is not in the directory changes no
\* row and adds none, and dispatches neither mail nor revocation.
C17_UnknownHolderNoEffect ==
    [][ /\ lastOp'.op = "process_violation"
        /\ violations # <<>>
        /\ Head(violations).card_uid \notin directory
        => /\ users' = users
           /\ directory' = directory
           /\ lastOp'.status = "no_user_info"
           /\ lastOp'.email = ""
           /\ lastOp'.cloud = ""
           /\ lastOp'.excel = ""
      ]_vars

\* A violation of a card the directory does not know has just been skipped;
\* the card has no row, while another card has one.
C17_Witness ==
    /\ lastOp.op = "process_violation"
    /\ lastOp.status = "no_user_info"
    /\ lastOp.card_uid \notin directory
    /\ FindUser(users, lastOp.card_uid) = 0
    /\ users # <<>>

\* C18: a poll in which no unit answered (the login failed, or every request
\* did) ends the cycle at once: nothing is detected or handled, no sweep
\* runs, and the users table and the directory are unchanged.
C18_NoDataEndsCycle ==
    [][ lastOp'.op = "check_locks" /\ lastOp'.units = 0
        => /\ lastOp'.status = "no_data"
           /\ pc' = "idle"
           /\ violations' = <<>>
           /\ users' = users
           /\ directory' = directory
      ]_vars

\* A poll without data has just ended a cycle, leaving a row the sweep would
\* have cleared.
C18_Witness ==
    /\ lastOp.op = "check_locks"
    /\ lastOp.status = "no_data"
    /\ pc = "idle"
    /\ \E i \in 1..Len(users) : Decayed(users[i])

\* C19: a cycle that obtained data ends in no other way than by its sweep,
\* the sweep runs only when every violation detected has been handled,
\* whatever the outcomes, and it ends the cycle, so it runs once.
C19_SweepOnceAfterLoop ==
    [][ /\ lastOp'.op = "cycle_cleanup"
           => /\ pc = "processing" /\ pc' = "idle"
              /\ violations = <<>>
              /\ lastOp'.processed = lastOp'.found
              /\ lastOp.op # "cycle_cleanup"
        /\ pc = "processing" /\ pc' # "processing"
           => lastOp'.op = "cycle_cleanup"
        /\ pc = "processing" /\ violations = <<>>
           => lastOp'.op = "cycle_cleanup"
      ]_vars

\* The sweep of a cycle has just run after two violations whose handling
\* both failed.
C19_Witness ==
    /\ lastOp.op = "cycle_cleanup"
    /\ lastOp.found = 2
    /\ lastOp.processed = 2
    /\ lastOp.failed = 2

\* C20: in the end-to-end scenario (cycles with one violating lock of the
\* holder, spaced further apart than the cooldown window and closer than the
\* decay window, any number of cycles without it and of weekly sweeps in
\* between) every such cycle detects the violation, no sweep changes the
\* holder's row while the last escalation is less than the decay window
\* back, the first three escalations return strike_1, strike_2 and strike_3
\* in this order, and after the third the row has counter 1 and both strike
\* dates empty.
C20_EndToEnd ==
    /\ fresh["A"] = -1
          => now - RowOf("A").last_violation_date >= STRIKE_CLEANUP_DAYS
    /\ Escalated => fresh["A"] >= 1
    /\ DetectedNow /\ PolledLocks # {}
          => Len(violations) = 1 /\ violations[1].card_uid = "A"
    /\ Escalated /\ fresh["A"] \in 1..3
          => lastOp.strike_type =
                <<"strike_1", "strike_2", "strike_3">>[fresh["A"]]
    /\ fresh["A"] = 3
          => /\ RowOf("A").counter = 1
             /\ RowOf("A").strike_1_date = NULL
             /\ RowOf("A").strike_2_date = NULL

\* The third of three spaced cycles has just escalated the holder to
\* strike_3.
C20_Witness ==
    /\ Escalated
    /\ lastOp.strike_type = "strike_3"
    /\ fresh["A"] = 3
    /\ RowOf("A").created_at <= now - 2 * (STRIKE_COOLDOWN_HOURS + 1)
    /\ RowOf("A").counter = 1

\* C21: the users table holds at most one row per card; rows keep their
\* place and their card, none is ever removed, and a row is added only by a
\* committed escalation of a card that had no row.
C21_OneRecordPerIdentity ==
    [][/\ \A i, j \in 1..Len(users') :
             users'[i].card_uid = users'[j].card_uid => i = j
       /\ Len(users') >= Len(users)
       /\ \A i \in 1..Len(users) : users'[i].card_uid = users[i].card_uid
       /\ Len(users') > Len(users) =>
             /\ Len(users') = Len(users) + 1
             /\ lastOp'.op = "process_violation" /\ lastOp'.status = "done"
             /\ users'[Len(users')].card_uid = lastOp'.card_uid
             /\ FindUser(users, lastOp'.card_uid) = 0]_vars

\* Both holders have a row, and a row that a sweep or a reset had changed is
\* escalated again after the pause.
C21_Witness ==
    /\ Escalated
    /\ Len(users) = 2
    /\ now > 0
    /\ RowOf(lastOp.card_uid).created_at = 0
    /\ fresh[lastOp.card_uid] = -1

\* C22: in every ledger state reached through escalations, sweeps and
\* resets a row with strike_2_date set has strike_1_date set, and
\* validate_strike_data accepts every row.
C22_SecondStrikeHasFirst ==
    \A i \in 1..Len(users) :
        /\ users[i].strike_2_date # NULL => users[i].strike_1_date # NULL
        /\ validate_strike_data(users, users[i].card_uid)

\* A reset has cleared a row that held both strike dates.
C22_Witness ==
    /\ lastOp.op = "reset_user_strikes"
    /\ lastOp.status = "done"
    /\ lastOp.cleaned = 2

\* C23: the last_violation_date of a row never moves back and is never
\* cleared, whatever the step: an escalation, a sweep or a reset.
C23_LastViolationMonotone ==
    [][\A i \in 1..Len(users) :
          /\ users'[i].last_violation_date >= users[i].last_violation_date
          /\ users[i].last_violation_date # NULL =>
                users'[i].last_violation_date # NULL]_vars

\* A sweep has cleared the strikes of a row whose last violation lies back,
\* and the date of that violation is still on the row.
C23_Witness ==
    /\ lastOp.op \in AppSweeps
    /\ lastOp.cleaned = 1
    /\ Len(users) = 1
    /\ users[1].last_violation_date # NULL
    /\ users[1].last_violation_date < now
    /\ users[1].strike_1_date = NULL

\* The place of a violation in the poll: the index of its unit among the
\* units that answered and the index of its lock in that unit's list.
Place(v) ==
    CHOOSE p \in UNION {{<<k, j>> : j \in 1..Len(lock_data[k].locks)} :
                            k \in 1..Len(lock_data)} :
        /\ lock_data[p[1]].unit = v.location
        /\ lock_data[p[1]].locks[p[2]].lock_id = v.lock_id

\* A lock of the poll that fulfils every condition of the detector.
Qualifies(lock) ==
    /\ Complete(lock)
    /\ Instant(lock.locked_at) < now - VIOLATION_HOURS
    /\ ~is_user_in_cooldown(users, lock.locked_by_uid)

\* C24: the violations a detection returns are in the order of the units of
\* the poll and, within a unit, in the order of its lock list; every
\* qualifying lock yields its own violation, so a holder with k qualifying
\* locks has k violations.
C24_OrderedNoDedup ==
    DetectedNow =>
        /\ \A a, b \in 1..Len(violations) :
              a < b =>
                 \/ Place(violations[a])[1] < Place(violations[b])[1]
                 \/ /\ Place(violations[a])[1] = Place(violations[b])[1]
                    /\ Place(violations[a])[2] < Place(violations[b])[2]
        /\ \A u \in Identities :
              Cardinality({i \in 1..Len(violations) : violations[i].card_uid = u})
              = Cardinality({pl \in PolledLocks :
                                Qualifies(pl[2]) /\ pl[2].locked_by_uid = u})

\* One holder has a stale lock in each of the two units, and the detection
\* returned both, the first unit's first.
C24_Witness ==
    /\ DetectedNow
    /\ Len(violations) = 2
    /\ violations[1].card_uid = violations[2].card_uid
    /\ violations[1].location = MONITORED_UNITS[1]
    /\ violations[2].location = MONITORED_UNITS[2]

\* C25: a lock whose timestamp cannot be used (the lock client rejected the
\* string and passed the lock on without timestamp, or the string parses to a
\* datetime that cannot be compared with the cutoff) yields no violation
\* itself, and every qualifying lock of the same poll still yields its
\* violation.
C25_BadTimestampSkipsOneLock ==
    DetectedNow =>
        /\ \A pl \in PolledLocks :
              pl[2].locked_at.form \in {"none", "dateonly"} => ~Emitted(pl)
        /\ \A pl \in PolledLocks : Qualifies(pl[2]) => Emitted(pl)
        /\ lastOp.rejected <=
              Cardinality({pl \in PolledLocks : pl[2].locked_at.form = "none"})

\* The first lock of the poll carried a string that is not a timestamp, and
\* the stale lock after it is the one violation of the detection.
C25_Witness ==
    /\ DetectedNow
    /\ lastOp.rejected = 1
    /\ Len(violations) = 1
    /\ violations[1].lock_id = 2
    /\ \E pl \in PolledLocks :
          /\ pl[2].lock_id = 1
          /\ pl[2].is_locked
          /\ pl[2].locked_at.form = "none"

\* C26: a reset of a card with a row, once committed, leaves the row with
\* both strike dates NULL and with the counter, last_violation_date, card and
\* creation date it had, and leaves every other row as it was; a reset of a
\* card without a row returns False and the table is as before, as it is
\* after a reset that failed.
C26_ResetFrame ==
    [][lastOp'.op = "reset_user_strikes" =>
          LET i == FindUser(users, lastOp'.card_uid)
          IN  IF i = 0
              THEN lastOp'.status = "error" /\ users' = users
              ELSE IF lastOp'.status = "done"
              THEN /\ Len(users') = Len(users)
                   /\ users'[i].strike_1_date = NULL
                   /\ users'[i].strike_2_date = NULL
                   /\ users'[i].counter = users[i].counter
                   /\ users'[i].last_violation_date = users[i].last_violation_date
                   /\ users'[i].card_uid = users[i].card_uid
                   /\ users'[i].created_at = users[i].created_at
                   /\ \A j \in 1..Len(users) : j # i => users'[j] = users[j]
              ELSE users' = users]_vars

\* A reset has cleared the one strike of a repeat offender, beside the row of
\* the other holder.
C26_Witness ==
    /\ lastOp.op = "reset_user_strikes"
    /\ lastOp.status = "done"
    /\ lastOp.cleaned = 1
    /\ Len(users) = 2
    /\ RowOf(lastOp.card_uid).counter = 1
    /\ RowOf(lastOp.card_uid).last_violation_date # NULL

\* C27 as stated: with the weekly job running beside a cycle, the table is
\* what the job's transaction and the escalations give in some order one
\* after the other, so no row has strike_2_date set and strike_1_date cleared.
C27_InterleavingSerializable ==
    \A i \in 1..Len(users) :
        users[i].strike_1_date = NULL => users[i].strike_2_date = NULL

\* The strike columns an escalation of the card finds: those of its row, or
\* of the clean row the escalation creates.
Found(card_uid) ==
    IF FindUser(users, card_uid) # 0
    THEN [strike_1_date |-> RowOf(card_uid).strike_1_date,
          strike_2_date |-> RowOf(card_uid).strike_2_date,
          counter |-> RowOf(card_uid).counter]
    ELSE [strike_1_date |-> NULL, strike_2_date |-> NULL, counter |-> 0]

\* C28: a committed escalation that finds strike_1_date NULL returns
\* strike_1 and sets strike_1_date, strike_2_date and the counter staying as
\* found; one that finds strike_1_date set and strike_2_date NULL returns
\* strike_2 and sets strike_2_date, strike_1_date and the counter staying as
\* found.  The counter found plays no part in the choice.
C28_StrikeFrames ==
    [][lastOp'.op = "process_violation" /\ lastOp'.status = "done" =>
          LET found == Found(lastOp'.card_uid)
              after == users'[FindUser(users', lastOp'.card_uid)]
          IN  /\ found.strike_1_date = NULL =>
                    /\ lastOp'.strike_type = "strike_1"
                    /\ after.strike_1_date = now
                    /\ after.strike_2_date = found.strike_2_date
                    /\ after.counter = found.counter
              /\ found.strike_1_date # NULL /\ found.strike_2_date = NULL =>
                    /\ lastOp'.strike_type = "strike_2"
                    /\ after.strike_2_date = now
                    /\ after.strike_1_date = found.strike_1_date
                    /\ after.counter = found.counter]_vars

\* A card whose counter is 2 and whose strike dates were NULL has received
\* strike_1, and at a later time strike_2.
C28_Witness ==
    /\ Escalated
    /\ lastOp.strike_type = "strike_2"
    /\ RowOf(lastOp.card_uid).counter = 2
    /\ RowOf(lastOp.card_uid).strike_1_date < now

\* C29: the strike_info of a committed escalation carries the location and
\* the lock of the violation handled and the counter of the row as committed:
\* the counter found for strike_1 and strike_2, one more for strike_3 and
\* counter.
C29_OutcomeCarries ==
    [][lastOp'.op = "process_violation" /\ lastOp'.status = "done" =>
          LET violation == Head(violations)
              found == Found(lastOp'.card_uid)
              after == users'[FindUser(users', lastOp'.card_uid)]
          IN  /\ lastOp'.card_uid = violation.card_uid
              /\ lastOp'.location = violation.location
              /\ lastOp'.lock_id = violation.lock_id
              /\ lastOp'.counter = after.counter
              /\ lastOp'.strike_type \in {"strike_1", "strike_2"} =>
                    lastOp'.counter = found.counter
              /\ lastOp'.strike_type \in {"strike_3", "counter"} =>
                    lastOp'.counter = found.counter + 1]_vars

\* The second violation of a cycle, a lock of the second unit, has taken a
\* repeat offender's counter from 1 to 2.
C29_Witness ==
    /\ Escalated
    /\ lastOp.strike_type = "counter"
    /\ lastOp.counter = 2
    /\ lastOp.location = MONITORED_UNITS[2]
    /\ lastOp.lock_id = 2

\* C30 as stated: a holder who is not in cooldown at the detection is
\* escalated once for each stale lock in the same cycle, so after a committed
\* escalation the next violation of the holder in the cycle is not passed
\* over for want of a directory entry.
C30_EscalatedForEveryLock ==
    [][/\ lastOp.op = "process_violation"
       /\ lastOp.status = "done"
       /\ lastOp'.op = "process_violation"
       /\ lastOp'.card_uid = lastOp.card_uid
       => \/ lastOp'.status # "no_user_info"
          \/ lastOp'.card_uid \in directory']_vars

\* The strike types of a row's first escalations.
FirstStrikes == <<"strike_1", "strike_2", "strike_3">>

\* C30: the cooldown is looked at by the detection only, against the table
\* as it is before any violation of the cycle is handled: of one holder's
\* stale locks either all are returned or none, every violation returned is
\* then handed to the escalation, and an escalation is not held back by the
\* one just committed in the same cycle.  A holder without a row and with k
\* stale locks (k up to 3) gets strike_1 .. strike_k in that cycle.  A
\* violation is passed over for want of a directory entry only when the
\* holder has had strike_3, whose revocation removes the entry.
C30_CooldownAtDetectionOnly ==
    /\ DetectedNow =>
          \A pl \in PolledLocks :
              Complete(pl[2]) /\ Instant(pl[2].locked_at) < now - VIOLATION_HOURS =>
                  (Emitted(pl) <=> ~is_user_in_cooldown(users, pl[2].locked_by_uid))
    /\ pc = "processing" => Len(violations) = lastOp.found - lastOp.processed
    /\ /\ Escalated
       /\ lastOp.failed = 0
       /\ fresh[lastOp.card_uid] = lastOp.processed
       /\ lastOp.processed <= 3
       => /\ lastOp.strike_type = FirstStrikes[lastOp.processed]
          /\ RowOf(lastOp.card_uid).last_violation_date = now
    /\ /\ lastOp.op = "process_violation"
       /\ lastOp.status = "no_user_info"
       /\ lastOp.card_uid \notin directory
       => /\ FindUser(users, lastOp.card_uid) # 0
          /\ RowOf(lastOp.card_uid).counter >= 1

\* A holder without a row had three stale locks in one poll, and the third
\* violation of the cycle has ended in strike_3.
C30_Witness ==
    /\ Escalated
    /\ lastOp.found = 3
    /\ lastOp.processed = 3
    /\ lastOp.failed = 0
    /\ lastOp.strike_type = "strike_3"
    /\ fresh[lastOp.card_uid] = 3
    /\ RowOf(lastOp.card_uid).created_at = now

\* C31 as stated: with mails or revocation disabled the ledger is at every
\* step the ledger of the installation that has them enabled and is given
\* the same inputs.
C31_SameLedgerAsEnabled ==
    Synced => twin.users = users

\* C31: a run with mails disabled sends none, a run with revocation disabled
\* makes no cloud call and leaves the directory as it is, and the ledger is
\* that of the installation with both enabled for as long as the two have
\* the same directory.
C31_FlagsSuppressEffects ==
    /\ ~enable_emails => lastOp.email \in {"", "skipped"}
    /\ ~enable_cloud_deletion =>
          /\ lastOp.cloud \in {"", "skipped"}
          /\ lastOp.excel \in {"", "skipped"}
          /\ directory = {"A"}
    /\ Synced /\ twin.directory = directory => twin.users = users

\* In test mode a third strike is committed without mail and without
\* revocation; the installation with both enabled has the same ledger and
\* has removed the holder from its directory.
C31_Witness ==
    /\ ~enable_emails
    /\ ~enable_cloud_deletion
    /\ Escalated
    /\ lastOp.strike_type = "strike_3"
    /\ lastOp.email = "skipped"
    /\ lastOp.cloud = "skipped"
    /\ twin.last = lastOp
    /\ twin.users = users
    /\ twin.directory = {}

\* C32: a step sends a mail, calls the lock service, or touches the
\* directory only when it is the handling of one violation whose escalation
\* it has committed (the table has changed and the card's row carries the
\* time of this violation); it reports one mail at most.  A violation without
\* user info, or whose transaction failed, leaves no mail, no revocation and
\* the directory as it was.
C32_NotifyAfterCommit ==
    [][/\ \/ lastOp'.email # ""
          \/ lastOp'.cloud # ""
          \/ lastOp'.excel # ""
          \/ directory' # directory
          => /\ lastOp'.op = "process_violation"
             /\ lastOp'.status = "done"
             /\ lastOp'.processed = lastOp.processed + 1
             /\ users' # users
             /\ FindUser(users', lastOp'.card_uid) # 0
             /\ users'[FindUser(users', lastOp'.card_uid)].last_violation_date = now
       /\ lastOp'.email \in {"", "sent", "failed", "skipped"}
       /\ lastOp'.op = "process_violation" /\ lastOp'.status # "done"
          => /\ lastOp'.email = ""
             /\ lastOp'.cloud = ""
             /\ lastOp'.excel = ""
             /\ directory' = directory
             /\ users' = users]_vars

\* The first violation of a cycle was escalated and mailed; the second one's
\* transaction has failed and nothing was sent for it.
C32_Witness ==
    /\ lastOp.op = "process_violation"
    /\ lastOp.status = "error"
    /\ lastOp.processed = 2
    /\ lastOp.failed = 1
    /\ lastOp.email = ""
    /\ lastOp.cloud = ""

\* C33: with the transactions run one after another, strike_3 is returned
\* only by the escalation that takes a row's counter from 0 to 1, and no step
\* lowers a counter, so a card gets strike_3 once at most; the lock service
\* is called and the directory touched only in a step that returned
\* strike_3.
C33_StrikeThreeOnce ==
    [][/\ \A i \in 1..Len(users) : users'[i].counter >= users[i].counter
       /\ lastOp'.op = "process_violation" /\ lastOp'.strike_type = "strike_3"
          => /\ Found(lastOp'.card_uid).counter = 0
             /\ users'[FindUser(users', lastOp'.card_uid)].counter = 1
       /\ lastOp'.cloud # "" \/ lastOp'.excel # "" \/ directory' # directory
          => lastOp'.strike_type = "strike_3"]_vars

\* A card that had its strike_3 is escalated from the two-strikes state
\* again: the outcome is counter, and nothing is revoked.
C33_Witness ==
    /\ Escalated
    /\ lastOp.strike_type = "counter"
    /\ RowOf(lastOp.card_uid).counter = 2
    /\ lastOp.cloud = ""
    /\ lastOp.excel = ""
    /\ lastOp.card_uid \in directory

\* C34: a successful Excel removal after strike_3 takes the card out of the
\* directory, and the violations of a card that is not in the directory are
\* skipped at the lookup: the table is left as it is and no mail is sent, so
\* the card's counter stays where strike_3 put it.
C34_RemovedHolderSkipped ==
    [][/\ lastOp'.excel = "deleted" =>
             /\ lastOp'.strike_type = "strike_3"
             /\ lastOp'.card_uid \notin directory'
             /\ users'[FindUser(users', lastOp'.card_uid)].counter = 1
       /\ \A u \in Identities \ directory :
             /\ u \notin directory'
             /\ lastOp'.op = "process_violation" /\ lastOp'.card_uid = u =>
                   /\ lastOp'.status = "no_user_info"
                   /\ lastOp'.email = ""
                   /\ users' = users
             /\ FindUser(users, u) # 0 =>
                   /\ RowOf(u).counter = 1
                   /\ users'[FindUser(users', u)].counter = 1]_vars

\* In a cycle after the one that removed the holder, a violation of the
\* holder is skipped and the row still has counter 1.
C34_Witness ==
    /\ lastOp.op = "process_violation"
    /\ lastOp.status = "no_user_info"
    /\ lastOp.card_uid = "A"
    /\ "A" \notin directory
    /\ RowOf("A").counter = 1
    /\ RowOf("A").last_violation_date < now

\* The holder of a row is outside the cooldown window: no escalation yet, or
\* the last one at least STRIKE_COOLDOWN_HOURS back.
OutOfCooldown(card_uid) ==
    LET i == FindUser(users, card_uid)
    IN  \/ i = 0
        \/ users[i].last_violation_date = NULL
        \/ now - users[i].last_violation_date >= STRIKE_COOLDOWN_HOURS

\* C35: detection changes nothing in the table, whether it suppresses or
\* not, and returns violations of the polled locks only; a lock that is
\* polled with the same engagement timestamp in cycle after cycle yields a
\* violation in every cycle in which its holder is out of cooldown, and the
\* third committed escalation of a holder who started clean is strike_3.
C35_SameEngagementEveryCycle ==
    [][/\ lastOp'.op = "check_locks" =>
             /\ users' = users
             /\ lastOp'.status = "detected" =>
                   /\ \A a \in 1..Len(violations') :
                         \E k \in 1..Len(lock_data') :
                         \E j \in 1..Len(lock_data'[k].locks) :
                            /\ violations'[a].location = lock_data'[k].unit
                            /\ violations'[a].lock_id = lock_data'[k].locks[j].lock_id
                   /\ \A k \in 1..Len(lock_data') :
                      \A j \in 1..Len(lock_data'[k].locks) :
                         OutOfCooldown(lock_data'[k].locks[j].locked_by_uid) =>
                            \E a \in 1..Len(violations') :
                               /\ violations'[a].location = lock_data'[k].unit
                               /\ violations'[a].lock_id = lock_data'[k].locks[j].lock_id
                               /\ violations'[a].card_uid = "A"
                               /\ violations'[a].locked_at.t = 0 - (VIOLATION_HOURS + 1)
       /\ /\ lastOp'.op = "process_violation"
          /\ lastOp'.status = "done"
          /\ fresh'["A"] = 3
          => lastOp'.strike_type = "strike_3"]_vars

\* The third cycle of the engagement: the holder has collected strike_1 and
\* strike_2 in two earlier cycles, each outside the cooldown window of the
\* one before, is out of cooldown again, and the lock is detected once more.
C35_Witness ==
    /\ DetectedNow
    /\ violations # <<>>
    /\ Head(violations).card_uid = "A"
    /\ Head(violations).locked_at.t = 0 - (VIOLATION_HOURS + 1)
    /\ fresh["A"] = 2
    /\ RowOf("A").strike_1_date # NULL
    /\ RowOf("A").strike_2_date # NULL
    /\ RowOf("A").strike_2_date - RowOf("A").strike_1_date >= STRIKE_COOLDOWN_HOURS
    /\ now - RowOf("A").last_violation_date >= STRIKE_COOLDOWN_HOURS

\* The row is due for the decay sweep: the sweep, run now, would clear it.
DueForSweep(user) ==
    /\ AppSweepSelects(user, Minus(UtcNow, STRIKE_CLEANUP_DAYS))
    /\ AppSweepClears(user, Minus(UtcNow, STRIKE_CLEANUP_DAYS))

\* C36: a committed escalation of a row that is due for the sweep goes by
\* the strike dates the row holds, not by their age: strike_2 (the old
\* strike_1_date kept, strike_2_date now) when only strike_1_date is set,
\* strike_3 or counter when both are set, never strike_1; and the sweep at
\* the end of a cycle leaves every row alone that was escalated at the
\* cycle's time.
C36_StaleStrikesEscalate ==
    [][/\ /\ lastOp'.op = "process_violation"
          /\ lastOp'.status = "done"
          /\ FindUser(users, lastOp'.card_uid) # 0
          /\ DueForSweep(Found(lastOp'.card_uid))
          => LET before == Found(lastOp'.card_uid)
                 after == users'[FindUser(users', lastOp'.card_uid)]
             IN  /\ lastOp'.strike_type # "strike_1"
                 /\ before.strike_2_date = NULL =>
                       /\ lastOp'.strike_type = "strike_2"
                       /\ after.strike_1_date = before.strike_1_date
                       /\ after.strike_2_date = now
                       /\ ~DueForSweep(after)
                 /\ before.strike_2_date # NULL =>
                       /\ lastOp'.strike_type =
                             IF before.counter = 0 THEN "strike_3" ELSE "counter"
                       /\ ~DueForSweep(after)
       /\ lastOp'.op = "cycle_cleanup" =>
             \A i \in 1..Len(users) :
                users[i].last_violation_date = now => users'[i] = users[i]]_vars

\* The sweep of a cycle has run and committed, and the holder's row still
\* has a strike_1_date older than the decay window beside the strike_2_date
\* the cycle gave it.
C36_Witness ==
    /\ lastOp.op = "cycle_cleanup"
    /\ lastOp.status = "done"
    /\ lastOp.processed >= 1
    /\ FindUser(users, "A") # 0
    /\ RowOf("A").strike_1_date # NULL
    /\ RowOf("A").strike_1_date < now - STRIKE_CLEANUP_DAYS
    /\ RowOf("A").strike_2_date = now

\* The comparison of is_user_in_cooldown raises for this card: the card has
\* a row with last_violation_date set, and the value read back from the
\* column and the cutoff are not both aware or both naive.
CooldownCheckErrs(card_uid) ==
    /\ FindUser(users, card_uid) # 0
    /\ RowOf(card_uid).last_violation_date # NULL
    /\ DbLoad(RowOf(card_uid).last_violation_date).aware
          # Minus(UtcNow, STRIKE_COOLDOWN_HOURS).aware

\* C37: a lock that fulfils the other conditions of the detector (engaged,
\* a holder, a timestamp older than the violation window) and for whose
\* holder the cooldown check hits an error is among the violations of the
\* detection, however recent the holder's last escalation is.
C37_CooldownFailsOpen ==
    DetectedNow =>
        \A pl \in PolledLocks :
            /\ Complete(pl[2])
            /\ Instant(pl[2].locked_at) < now - VIOLATION_HOURS
            /\ CooldownCheckErrs(pl[2].locked_by_uid)
            => Emitted(pl)

\* A detection has returned a lock of a holder who was escalated at this
\* very time, so that the check, had it not failed, would have suppressed.
C37_Witness ==
    /\ DetectedNow
    /\ \E pl \in PolledLocks :
          /\ Emitted(pl)
          /\ CooldownCheckErrs(pl[2].locked_by_uid)
          /\ RowOf(pl[2].locked_by_uid).last_violation_date = now

\* C38: started from the same reachable table at the same time and both
\* committing, LockMonitorApp._cleanup_old_strikes and
\* StrikeService.cleanup_old_strikes report the same number of cleared rows
\* and leave the same table.
C38_SweepsAgree ==
    /\ app_cleanup_old_strikes(users, TRUE).cleaned
          = svc_cleanup_old_strikes(users, TRUE).cleaned
    /\ app_cleanup_old_strikes(users, TRUE).tbl
          = svc_cleanup_old_strikes(users, TRUE).tbl

\* C39: when the mail of a committed escalation fails, the row is as the
\* escalation committed it and, for strike_3 with revocation enabled, the
\* cloud deletion and the Excel removal are both attempted; when the cloud
\* deletion fails the Excel removal is attempted all the same, and the card
\* leaves the directory exactly when that removal succeeds.
C39_FailuresDoNotStopHandling ==
    [][lastOp'.op = "process_violation" /\ lastOp'.status = "done" =>
          LET after == users'[FindUser(users', lastOp'.card_uid)]
              attempted == {"deleted", "failed"}
          IN  /\ lastOp'.email = "failed" =>
                    /\ after.last_violation_date = now
                    /\ after.updated_at = now
                    /\ after.counter = lastOp'.counter
                    /\ lastOp'.strike_type = "strike_1" => after.strike_1_date = now
                    /\ lastOp'.strike_type = "strike_2" => after.strike_2_date = now
                    /\ lastOp'.strike_type = "strike_3" =>
                          /\ after.strike_1_date = NULL
                          /\ after.strike_2_date = NULL
                          /\ lastOp'.cloud \in attempted
                          /\ lastOp'.excel \in attempted
              /\ lastOp'.cloud = "failed" =>
                    /\ lastOp'.excel \in attempted
                    /\ lastOp'.excel = "deleted" <=> lastOp'.card_uid \notin directory'
                    /\ lastOp'.excel = "failed" => directory' = directory]_vars

\* A strike_3 whose mail failed and whose cloud deletion failed, and the
\* holder has been removed from the directory.
C39_Witness ==
    /\ Escalated
    /\ lastOp.strike_type = "strike_3"
    /\ lastOp.email = "failed"
    /\ lastOp.cloud = "failed"
    /\ lastOp.excel = "deleted"
    /\ lastOp.card_uid \notin directory
    /\ RowOf(lastOp.card_uid).counter = 1
    /\ RowOf(lastOp.card_uid).last_violation_date = now

\* C40: in every reachable table a row with both strike dates has
\* strike_1_date <= strike_2_date, every counter is at least 0, and
\* validate_strike_data returns True for every card, with or without a row.
C40_LedgerValid ==
    /\ \A i \in 1..Len(users) :
          /\ users[i].counter >= 0
          /\ users[i].strike_1_date # NULL /\ users[i].strike_2_date # NULL
                => users[i].strike_1_date <= users[i].strike_2_date
    /\ \A card_uid \in Identities : validate_strike_data(users, card_uid)

\* A repeat offender with two strikes collected at different times.
C40_Witness ==
    /\ FindUser(users, "A") # 0
    /\ RowOf("A").counter >= 1
    /\ RowOf("A").strike_1_date # NULL
    /\ RowOf("A").strike_2_date # NULL
    /\ RowOf("A").strike_1_date < RowOf("A").strike_2_date

====
